---- MODULE Spec2Model ----
(***************************************************************************)
(* Repository stack detection and containerization synthesis (DevO).       *)
(*                                                                         *)
(* The model follows RepoContainerizer.analyze_with_llm                    *)
(* (repo_containerizer.py) and the utility functions it calls (utils.py,   *)
(* templates.py).  One run of the analysis is a state machine whose        *)
(* position pc walks through the statements of analyze_with_llm.         *)
(* The standalone tool (repocontainerizer.py: detect_build_commands,       *)
(* generate_dockerfile, generate_docker_compose, called by auto_setup_repo *)
(* and containerize_repo) has its own variables and specifications.        *)
(* The files written by both tools (create_output_files, containerize_repo) *)
(* are the variable output; the Config object of the standalone tool and   *)
(* its config.json are the variable config; one call of                    *)
(* IntelligentAutoRepairAgent.run_cmd_with_fixes is the variable agent.    *)
(*                                                                         *)
(* Text is abstracted to the features the code reads from it:              *)
(*   - a file content is a record of its JSON parse (json.loads), the      *)
(*     vocabulary words that occur in its lower-cased text (the in       *)
(*     substring tests), its lines (requirements.txt), the pieces that the *)
(*     port patterns match and the environment variable names it mentions; *)
(*   - an LLM response is a sequence of tokens: whitespace, a code fence,  *)
(*     the language tag json, or a body of text;                         *)
(*   - a Python dict is a sequence of <<key, value>> pairs in insertion    *)
(*     order; a Python list is a sequence;                                 *)
(*   - a Dockerfile is the list of its instructions, a compose file the    *)
(*     list of its services and volumes, a shell command of the standalone *)
(*     tool the list of its words;                                         *)
(*   - iterating a Python set of strings yields an unspecified order       *)
(*     (string hashing is randomized per process), so every order is a     *)
(*     possible outcome.                                                   *)
(***************************************************************************)
EXTENDS Integers, Sequences, FiniteSets, TLC

VARIABLES
    files,              \* structure['files']: list of file names
    file_contents,      \* dict file name -> content, in insertion order
    pc,                 \* position inside analyze_with_llm
    language_counts,    \* dict language -> count (insertion ordered)
    primary_language,
    framework,
    package_manager,
    databases,
    port,
    env_vars,
    build_tools,
    dependencies,
    dockerfile_template,
    compose_template,
    commands,
    health_check,
    response,           \* what the LLM call produced
    result,             \* the returned RepositoryAnalysis, or the exception
    repo_path,          \* standalone tool: the paths that exist in the checkout
    package_data,       \* standalone tool: what json.load gives for package.json
    cli,                \* standalone tool: locals of containerize_repo and
                        \* auto_setup_repo, and the analyzer's _use_uv
    output,             \* the output directory and the list of generated files
    config,             \* standalone tool: the Config object and its file
    agent               \* repair agent: locals of run_cmd_with_fixes

vars == <<files, file_contents, pc, language_counts, primary_language,
          framework, package_manager, databases, port, env_vars,
          build_tools, dependencies, dockerfile_template, compose_template,
          commands, health_check, response, result,
          repo_path, package_data, cli, output, config, agent>>

analysis_vars ==
    <<files, file_contents, pc, language_counts, primary_language,
      framework, package_manager, databases, port, env_vars,
      build_tools, dependencies, dockerfile_template, compose_template,
      commands, health_check, response, result>>

standalone_vars == <<repo_path, package_data, cli>>

tool_vars == <<output, config, agent>>

------------------------------------------------------------------------------
(* Bounds *)

MaxFiles == 2       \* longest file list
MaxLines == 2       \* most lines in requirements.txt

------------------------------------------------------------------------------
(* Generic helpers for Python lists, dicts and sets *)

Range(s) == {s[i] : i \in 1..Len(s)}

\* list.count(x)
Count(s, x) == Cardinality({i \in 1..Len(s) : s[i] = x})

\* all duplicate-free sequences over S of length at most n
RECURSIVE SeqsNoDup(_, _)
SeqsNoDup(S, n) ==
    IF n = 0 THEN {<<>>}
    ELSE LET shorter == SeqsNoDup(S, n - 1)
         IN  shorter \cup
             UNION {{Append(s, x) : x \in S \ Range(s)} : s \in shorter}

\* all sequences over S of length at most n
RECURSIVE SeqsUpTo(_, _)
SeqsUpTo(S, n) ==
    IF n = 0 THEN {<<>>}
    ELSE LET shorter == SeqsUpTo(S, n - 1)
         IN  shorter \cup {Append(s, x) : s \in shorter, x \in S}

\* list(set(s)): every ordering of the distinct elements of s
ListOfSet(S) == {t \in SeqsNoDup(S, Cardinality(S)) : Len(t) = Cardinality(S)}

DictKeys(d) == {d[i][1] : i \in 1..Len(d)}

\* d.get(k, default)
DictGet(d, k, default) ==
    IF k \in DictKeys(d)
    THEN d[CHOOSE i \in 1..Len(d) : d[i][1] = k][2]
    ELSE default

\* d[k] = v
DictSet(d, k, v) ==
    IF k \in DictKeys(d)
    THEN [i \in 1..Len(d) |-> IF d[i][1] = k THEN <<k, v>> ELSE d[i]]
    ELSE Append(d, <<k, v>>)

\* max(d, key=d.get): the first key, in insertion order, of maximal value
MaxKeyFirst(d) ==
    LET i == CHOOSE i \in 1..Len(d) :
                 /\ \A j \in 1..Len(d) : d[j][2] <= d[i][2]
                 /\ \A j \in 1..(i - 1) : d[j][2] < d[i][2]
    IN  d[i][1]

------------------------------------------------------------------------------
(* File names and their extensions *)

FileNames == {"package.json", "yarn.lock", "uv.lock", "requirements.txt",
              "manage.py", "index.js"}

\* os.path.splitext(file)[1].lower()
splitext(file) ==
    CASE file = "package.json"     -> ".json"
      [] file = "yarn.lock"        -> ".lock"
      [] file = "uv.lock"          -> ".lock"
      [] file = "requirements.txt" -> ".txt"
      [] file = "manage.py"        -> ".py"
      [] file = "index.js"         -> ".js"
      [] file = "server.js"        -> ".js"
      [] OTHER                     -> ""

\* Variant of language_extensions: the package manifest extension counted
\* as JavaScript source.
language_extensions_JsonAsJavaScript ==
    <<  <<".py", "Python">>, <<".js", "JavaScript">>, <<".ts", "TypeScript">>,
        <<".jsx", "JavaScript">>, <<".tsx", "TypeScript">>, <<".java", "Java">>,
        <<".go", "Go">>, <<".json", "JavaScript">> >>

\* language_extensions of detect_language_from_files
language_extensions ==
    <<  <<".py", "Python">>, <<".js", "JavaScript">>, <<".ts", "TypeScript">>,
        <<".jsx", "JavaScript">>, <<".tsx", "TypeScript">>, <<".java", "Java">>,
        <<".kt", "Kotlin">>, <<".go", "Go">>, <<".rs", "Rust">>,
        <<".cpp", "C++">>, <<".c", "C">>, <<".cs", "C#">>, <<".php", "PHP">>,
        <<".rb", "Ruby">>, <<".swift", "Swift">>, <<".dart", "Dart">>,
        <<".scala", "Scala">>, <<".clj", "Clojure">>, <<".r", "R">>,
        <<".sh", "Shell">>, <<".yml", "YAML">>, <<".yaml", "YAML">>,
        <<".json", "JSON">>, <<".xml", "XML">>, <<".html", "HTML">>,
        <<".css", "CSS">>, <<".scss", "SCSS">>, <<".sass", "SASS">>,
        <<".less", "LESS">>, <<".sql", "SQL">>,
        <<".dockerfile", "Dockerfile">> >>

\* detect_language_from_files: the histogram as an insertion-ordered dict
RECURSIVE detect_language_from_files(_)
detect_language_from_files(fs) ==
    IF fs = <<>> THEN <<>>
    ELSE LET counts == detect_language_from_files(SubSeq(fs, 1, Len(fs) - 1))
             ext == splitext(fs[Len(fs)])
         IN  IF ext \in DictKeys(language_extensions)
             THEN LET lang == DictGet(language_extensions, ext, "")
                  IN  DictSet(counts, lang, DictGet(counts, lang, 0) + 1)
             ELSE counts

\* max(language_counts, key=language_counts.get) if language_counts else "unknown"
PrimaryLanguage(counts) ==
    IF counts = <<>> THEN "unknown" ELSE MaxKeyFirst(counts)

------------------------------------------------------------------------------
(* File contents *)

\* Words whose occurrence in a lower-cased content the detectors test.
Words == {"react", "express", "next", "flask", "django", "redis", "psycopg2",
          "mongodb"}

NoMatch == 0 - 1

\* port_patterns of detect_port_from_files, by position
port_patterns ==
    << "port[:\\s]*[=]?\\s*(\\d+)", "PORT[:\\s]*[=]?\\s*(\\d+)",
       "listen[:\\s]*[=]?\\s*(\\d+)", "server\\.port[:\\s]*[=]?\\s*(\\d+)",
       "app\\.listen\\s*\\(\\s*(\\d+)", "\\.run\\s*\\(\\s*port\\s*=\\s*(\\d+)",
       "server_port[:\\s]*[=]?\\s*(\\d+)" >>

\* Pieces of a text that the port patterns can match, each carrying a number:
\* "port = n" is matched by patterns 1 and 2 (re.IGNORECASE makes them the
\* same), "listen n" by pattern 3, "app.listen(n" by pattern 5 only.
PortSnippet(kind, n) == [kind |-> kind, n |-> n]

PatternsMatching(kind) ==
    CASE kind = "port = "     -> {1, 2}
      [] kind = "listen "     -> {3}
      [] kind = "app.listen(" -> {5}
      [] OTHER                -> {}

\* re.findall(port_patterns[p], content, re.IGNORECASE): the captured numbers
\* of the matching pieces, in text order
RECURSIVE findall(_, _)
findall(p, snippets) ==
    IF snippets = <<>> THEN <<>>
    ELSE (IF p \in PatternsMatching(Head(snippets).kind)
          THEN <<Head(snippets).n>> ELSE <<>>) \o findall(p, Tail(snippets))

\* a text without any port piece
NoPorts == <<>>

\* A value inside a parsed JSON object: absent key, dict, list or null.
Absent == [kind |-> "absent", keys |-> <<>>]
JDict(keys) == [kind |-> "dict", keys |-> keys]
JList(items) == [kind |-> "list", keys |-> items]
JNull == [kind |-> "null", keys |-> <<>>]

\* json.loads of a text: not JSON at all, or the parsed value.
JInvalid ==
    [kind |-> "invalid", dependencies |-> Absent, devDependencies |-> Absent,
     scripts |-> Absent]
JArray ==
    [kind |-> "array", dependencies |-> Absent, devDependencies |-> Absent,
     scripts |-> Absent]
JString ==
    [kind |-> "string", dependencies |-> Absent, devDependencies |-> Absent,
     scripts |-> Absent]
JObject(deps, dev, scripts) ==
    [kind |-> "object", dependencies |-> deps, devDependencies |-> dev,
     scripts |-> scripts]

\* the words a parsed JSON value puts into the text (its keys and items)
JsonWords(j) ==
    (Range(j.dependencies.keys) \cup Range(j.devDependencies.keys)
        \cup Range(j.scripts.keys)) \cap Words

\* a requirements.txt line: a requirement name==1.0, or a # comment
ReqLine(name) == [kind |-> "requirement", name |-> name]
CommentLine == [kind |-> "comment", name |-> "# comment"]

LineWords(lines) == {lines[i].name : i \in 1..Len(lines)} \cap Words

Content(json, words, lines, ports, envs) ==
    [json |-> json, words |-> words, lines |-> lines, ports |-> ports,
     envs |-> envs]

------------------------------------------------------------------------------
(* utils.py: stack detection *)

framework_indicators ==
    << <<"package.json", <<"react", "next", "express", "vue", "angular", "gatsby", "nuxt">> >>,
       <<"requirements.txt", <<"django", "flask", "fastapi", "tornado", "bottle">> >>,
       <<"Pipfile", <<"django", "flask", "fastapi", "tornado", "bottle">> >>,
       <<"pyproject.toml", <<"django", "flask", "fastapi", "tornado", "bottle">> >>,
       <<"pom.xml", <<"spring", "struts", "wicket">> >>,
       <<"build.gradle", <<"spring", "struts", "wicket">> >>,
       <<"Cargo.toml", <<"actix", "rocket", "warp">> >>,
       <<"go.mod", <<"gin", "echo", "fiber", "gorilla">> >>,
       <<"composer.json", <<"laravel", "symfony", "codeigniter">> >>,
       <<"Gemfile", <<"rails", "sinatra", "hanami">> >> >>

framework_files ==
    << <<"manage.py", "django">>, <<"app.py", "flask">>, <<"main.py", "fastapi">>,
       <<"server.js", "express">>, <<"index.js", "express">>,
       <<"next.config.js", "next">>, <<"gatsby-config.js", "gatsby">>,
       <<"nuxt.config.js", "nuxt">>, <<"angular.json", "angular">>,
       <<"vue.config.js", "vue">>, <<"Application.java", "spring">>,
       <<"main.go", "gin">>, <<"artisan", "laravel">>,
       <<"config/application.rb", "rails">> >>

\* [x for x in candidates if x in content_lower], in the order of candidates
RECURSIVE Occurring(_, _)
Occurring(candidates, words) ==
    IF candidates = <<>> THEN <<>>
    ELSE LET rest == Occurring(Tail(candidates), words)
         IN  IF Head(candidates) \in words THEN <<Head(candidates)>> \o rest
             ELSE rest

\* first loop of detect_framework_from_files: content sniffing
RECURSIVE SniffedFrameworks(_)
SniffedFrameworks(contents) ==
    IF contents = <<>> THEN <<>>
    ELSE LET file == Head(contents)[1]
             content == Head(contents)[2]
             here == IF file \in DictKeys(framework_indicators)
                     THEN Occurring(DictGet(framework_indicators, file, <<>>),
                                    content.words)
                     ELSE <<>>
         IN  here \o SniffedFrameworks(Tail(contents))

\* second loop of detect_framework_from_files: marker files
RECURSIVE MarkerFrameworks(_)
MarkerFrameworks(fs) ==
    IF fs = <<>> THEN <<>>
    ELSE (IF Head(fs) \in DictKeys(framework_files)
          THEN <<DictGet(framework_files, Head(fs), "")>> ELSE <<>>)
         \o MarkerFrameworks(Tail(fs))

detected_frameworks(fs, contents) ==
    SniffedFrameworks(contents) \o MarkerFrameworks(fs)

\* max(set(l), key=l.count): the first element of maximal count in the
\* iteration order of the set, which is unspecified; every element of
\* maximal count is a possible outcome.
MaxOfSetByCount(l) ==
    {x \in Range(l) : \A y \in Range(l) : Count(l, y) <= Count(l, x)}

\* detect_framework_from_files: the set of values it can return
detect_framework_from_files(fs, contents) ==
    LET l == detected_frameworks(fs, contents)
    IN  IF l # <<>> THEN MaxOfSetByCount(l) ELSE {"generic"}

package_managers ==
    << <<"package.json", "npm">>, <<"package-lock.json", "npm">>,
       <<"yarn.lock", "yarn">>, <<"pnpm-lock.yaml", "pnpm">>,
       <<"requirements.txt", "pip">>, <<"Pipfile", "pipenv">>,
       <<"pyproject.toml", "pip">>, <<"poetry.lock", "poetry">>,
       <<"pom.xml", "maven">>, <<"build.gradle", "gradle">>,
       <<"Cargo.toml", "cargo">>, <<"go.mod", "go">>,
       <<"composer.json", "composer">>, <<"Gemfile", "bundle">> >>

\* detect_package_manager: the first file of the list that is in the table
RECURSIVE detect_package_manager(_)
detect_package_manager(fs) ==
    IF fs = <<>> THEN "unknown"
    ELSE IF Head(fs) \in DictKeys(package_managers)
         THEN DictGet(package_managers, Head(fs), "unknown")
         ELSE detect_package_manager(Tail(fs))

database_indicators ==
    << <<"postgresql", <<"postgresql", "postgres", "psycopg2", "pg_", "postgresql://">> >>,
       <<"mysql", <<"mysql", "pymysql", "mysql2", "mysql://">> >>,
       <<"sqlite", <<"sqlite", "sqlite3", "sqlite://">> >>,
       <<"mongodb", <<"mongodb", "pymongo", "mongoose", "mongodb://">> >>,
       <<"redis", <<"redis", "redis-py", "ioredis", "redis://">> >>,
       <<"elasticsearch", <<"elasticsearch", "elastic", "elasticsearch://">> >>,
       <<"cassandra", <<"cassandra", "datastax", "cassandra://">> >> >>

\* inner loop of detect_database_requirements over the indicator table
RECURSIVE ScanDatabases(_, _, _)
ScanDatabases(found, table, words) ==
    IF table = <<>> THEN found
    ELSE LET db == Head(table)[1]
             hit == Range(Head(table)[2]) \cap words # {}
         IN  ScanDatabases(IF hit /\ db \notin Range(found)
                           THEN Append(found, db) ELSE found,
                           Tail(table), words)

RECURSIVE detect_database_requirements(_)
detect_database_requirements(contents) ==
    IF contents = <<>> THEN <<>>
    ELSE ScanDatabases(
             detect_database_requirements(SubSeq(contents, 1, Len(contents) - 1)),
             database_indicators, contents[Len(contents)][2].words)

\* inner loop of detect_port_from_files over the patterns of one content:
\* only matches[0] of each pattern is looked at
RECURSIVE FirstPortIn(_, _)
FirstPortIn(ports, p) ==
    IF p > Len(port_patterns) THEN NoMatch
    ELSE LET matches == findall(p, ports)
         IN  IF matches # <<>> /\ 1000 <= matches[1] /\ matches[1] <= 65535
             THEN matches[1]
             ELSE FirstPortIn(ports, p + 1)

\* default_ports of detect_port_from_files: assigned at lines 162-175 and
\* read nowhere in the function
default_ports ==
    << <<"django", 8000>>, <<"flask", 5000>>, <<"fastapi", 8000>>,
       <<"express", 3000>>, <<"next", 3000>>, <<"react", 3000>>,
       <<"vue", 8080>>, <<"angular", 4200>>, <<"spring", 8080>>,
       <<"gin", 8080>>, <<"laravel", 8000>>, <<"rails", 3000>> >>

RECURSIVE detect_port_from_files(_)
detect_port_from_files(contents) ==
    IF contents = <<>> THEN 8080
    ELSE LET here == FirstPortIn(Head(contents)[2].ports, 1)
         IN  IF here # NoMatch THEN here
             ELSE detect_port_from_files(Tail(contents))

------------------------------------------------------------------------------
(* utils.py: environment variables, build tools, dependencies *)

\* Names of environment variables the contents of the model can mention.
EnvNames == {"DATABASE_URL", "DB_HOST", "PORT", "SECRET_KEY", "MY_VAR"}

env_descriptions ==
    << <<"DATABASE_URL", "Database connection URL">>,
       <<"DB_HOST", "Database host">>, <<"DB_PORT", "Database port">>,
       <<"DB_NAME", "Database name">>, <<"DB_USER", "Database username">>,
       <<"DB_PASSWORD", "Database password">>,
       <<"REDIS_URL", "Redis connection URL">>,
       <<"SECRET_KEY", "Secret key for encryption">>,
       <<"JWT_SECRET", "JWT token secret">>,
       <<"API_KEY", "API key for external services">>,
       <<"PORT", "Application port">>, <<"HOST", "Application host">>,
       <<"NODE_ENV", "Node.js environment">>,
       <<"FLASK_ENV", "Flask environment">>,
       <<"DJANGO_SETTINGS_MODULE", "Django settings module">>,
       <<"DEBUG", "Debug mode flag">>, <<"LOG_LEVEL", "Logging level">>,
       <<"CORS_ORIGIN", "CORS allowed origins">>,
       <<"MAIL_SERVER", "Email server">>, <<"MAIL_PORT", "Email server port">>,
       <<"MAIL_USERNAME", "Email username">>,
       <<"MAIL_PASSWORD", "Email password">>,
       <<"AWS_ACCESS_KEY_ID", "AWS access key">>,
       <<"AWS_SECRET_ACCESS_KEY", "AWS secret key">>,
       <<"AWS_REGION", "AWS region">>,
       <<"GOOGLE_APPLICATION_CREDENTIALS", "Google Cloud credentials">>,
       <<"MONGODB_URI", "MongoDB connection URI">>,
       <<"ELASTICSEARCH_URL", "Elasticsearch URL">> >>

\* var.startswith('DB_') or 'DATABASE' in var, over EnvNames
IsDatabaseVar(var) == var \in {"DATABASE_URL", "DB_HOST"}

\* detected_vars of detect_environment_variables
DetectedVars(contents) ==
    UNION {contents[i][2].envs : i \in 1..Len(contents)}

\* detect_environment_variables: the dicts it can return; the described
\* variables are inserted in the iteration order of a set
detect_environment_variables(contents) ==
    LET detected == DetectedVars(contents)
        described(order) ==
            [i \in 1..Len(order) |->
                <<order[i], DictGet(env_descriptions, order[i],
                                    "Environment variable: " \o order[i])>>]
        withDb(d) ==
            IF ~ \E v \in detected : IsDatabaseVar(v)
            THEN DictSet(d, "DATABASE_URL", "Database connection URL") ELSE d
        withPort(d) ==
            IF "PORT" \notin detected
            THEN DictSet(d, "PORT", "Application port") ELSE d
    IN  {withPort(withDb(described(order))) : order \in ListOfSet(detected)}

build_indicators ==
    << <<"webpack.config.js", "webpack">>, <<"rollup.config.js", "rollup">>,
       <<"vite.config.js", "vite">>, <<"gulpfile.js", "gulp">>,
       <<"Gruntfile.js", "grunt">>, <<"tsconfig.json", "typescript">>,
       <<"babel.config.js", "babel">>, <<".babelrc", "babel">>,
       <<"Makefile", "make">>, <<"CMakeLists.txt", "cmake">>,
       <<"build.gradle", "gradle">>, <<"pom.xml", "maven">>,
       <<"Cargo.toml", "cargo">>, <<"go.mod", "go">>,
       <<"setup.py", "python setuptools">>,
       <<"pyproject.toml", "python build">>, <<"tox.ini", "tox">>,
       <<"Dockerfile", "docker">>, <<"docker-compose.yml", "docker-compose">>,
       <<"docker-compose.yaml", "docker-compose">>,
       <<".github/workflows", "github-actions">>,
       <<"Jenkinsfile", "jenkins">>, <<".travis.yml", "travis-ci">>,
       <<".circleci/config.yml", "circleci">> >>

\* An outcome of a call: the exception it raised ("none" when it returned)
\* and the value it computed.
Returned(value) == [exc |-> "none", value |-> value]
Raised(exc) == [exc |-> exc, value |-> <<>>]

\* Variant of PackageScripts: the JSONDecodeError of json.loads is not caught.
PackageScripts_Uncaught(content) ==
    LET j == content.json
    IN  IF j.kind = "invalid" THEN Raised("JSONDecodeError")
        ELSE IF j.kind # "object" THEN Raised("AttributeError")
        ELSE IF j.scripts.kind = "null" THEN Raised("TypeError")
        ELSE Returned(
                (IF "build" \in Range(j.scripts.keys) THEN <<"npm build">> ELSE <<>>)
             \o (IF "test" \in Range(j.scripts.keys) THEN <<"npm test">> ELSE <<>>)
             \o (IF "start" \in Range(j.scripts.keys) THEN <<"npm start">> ELSE <<>>))

\* the package.json block of detect_build_tools: json.loads, then
\* package_data.get('scripts', {}), then three in scripts tests; only
\* json.JSONDecodeError is caught
PackageScripts(content) ==
    LET j == content.json
    IN  IF j.kind = "invalid" THEN Returned(<<>>)
        ELSE IF j.kind # "object" THEN Raised("AttributeError")
        ELSE IF j.scripts.kind = "null" THEN Raised("TypeError")
        ELSE Returned(
                (IF "build" \in Range(j.scripts.keys) THEN <<"npm build">> ELSE <<>>)
             \o (IF "test" \in Range(j.scripts.keys) THEN <<"npm test">> ELSE <<>>)
             \o (IF "start" \in Range(j.scripts.keys) THEN <<"npm start">> ELSE <<>>))

\* detect_build_tools up to its return statement: the list before
\* list(set(...))
BuildToolList(fs, contents) ==
    LET fromFiles ==
            [i \in 1..Len(fs) |-> DictGet(build_indicators, fs[i], "")]
        listed == SelectSeq(fromFiles, LAMBDA t : t # "")
    IN  IF "package.json" \in DictKeys(contents)
        THEN LET scripts == PackageScripts(DictGet(contents, "package.json", <<>>))
             IN  IF scripts.exc # "none" THEN scripts
                 ELSE Returned(listed \o scripts.value)
        ELSE Returned(listed)

\* detect_build_tools: the exception it raises, or the lists it can return
detect_build_tools(fs, contents) ==
    LET l == BuildToolList(fs, contents)
    IN  IF l.exc # "none" THEN {l}
        ELSE {Returned(t) : t \in ListOfSet(Range(l.value))}

\* the package.json block of extract_dependencies: json.loads, two .get
\* calls, then deps.keys() and dev_deps.keys(); only JSONDecodeError is caught
PackageDependencies(content) ==
    LET j == content.json
        deps == IF j.dependencies.kind = "absent" THEN JDict(<<>>)
                ELSE j.dependencies
        dev == IF j.devDependencies.kind = "absent" THEN JDict(<<>>)
               ELSE j.devDependencies
    IN  IF j.kind = "invalid" THEN Returned(<<>>)
        ELSE IF j.kind # "object" THEN Raised("AttributeError")
        ELSE IF deps.kind # "dict" \/ dev.kind # "dict"
             THEN Raised("AttributeError")
        ELSE Returned(deps.keys \o dev.keys)

\* the requirements.txt block of extract_dependencies
RequirementNames(content) ==
    LET kept == SelectSeq(content.lines, LAMBDA l : l.kind = "requirement")
    IN  [i \in 1..Len(kept) |-> kept[i].name]

\* extract_dependencies up to its return statement (pom.xml and go.mod are
\* not among the contents of the model)
DependencyList(contents) ==
    LET node == IF "package.json" \in DictKeys(contents)
                THEN PackageDependencies(DictGet(contents, "package.json", <<>>))
                ELSE Returned(<<>>)
        python == IF "requirements.txt" \in DictKeys(contents)
                  THEN RequirementNames(DictGet(contents, "requirements.txt", <<>>))
                  ELSE <<>>
    IN  IF node.exc # "none" THEN node
        ELSE Returned(node.value \o python)

\* extract_dependencies: the exception it raises, or the lists it can return
extract_dependencies(contents) ==
    LET l == DependencyList(contents)
    IN  IF l.exc # "none" THEN {l}
        ELSE {Returned(t) : t \in ListOfSet(Range(l.value))}

------------------------------------------------------------------------------
(* utils.py: commands and health check; templates.py *)

\* str.lower() on the language names that can occur
Lower(language) ==
    CASE language = "Python"     -> "python"
      [] language = "JavaScript" -> "javascript"
      [] language = "JSON"       -> "json"
      [] language = "Java"       -> "java"
      [] language = "Go"         -> "go"
      [] OTHER                   -> language

\* generate_health_check_command
generate_health_check_command(language, fw, p) ==
    LET url == "http://localhost:" \o ToString(p)
        curl(path) == "curl -f " \o url \o path \o " || exit 1"
        wget(path) == "wget --no-verbose --tries=1 --spider " \o url \o path
                          \o " || exit 1"
        health_checks ==
            << <<"python", << <<"django", "python manage.py check --deploy">>,
                              <<"flask", curl("/health")>>,
                              <<"fastapi", curl("/health")>>,
                              <<"generic", curl("")>> >> >>,
               <<"javascript", << <<"express", curl("/health")>>,
                                  <<"next", curl("/api/health")>>,
                                  <<"react", curl("")>>,
                                  <<"generic", curl("")>> >> >>,
               <<"java", << <<"spring", curl("/actuator/health")>>,
                            <<"generic", curl("/health")>> >> >>,
               <<"go", << <<"gin", wget("/health")>>,
                          <<"generic", wget("")>> >> >> >>
    IN  IF Lower(language) \in DictKeys(health_checks)
        THEN LET framework_checks == DictGet(health_checks, Lower(language), <<>>)
             IN  DictGet(framework_checks, fw,
                         DictGet(framework_checks, "generic", curl("")))
        ELSE curl("")

\* Variant of Update: the overrides replace the whole dict, phases they do
\* not define are lost.
Update_ReplacesAll(base, overrides) ==
    [phase \in DOMAIN base |-> DictGet(overrides, phase, "")]

\* dict.update(overrides) on a dict with the four phase keys
Update(base, overrides) ==
    [phase \in DOMAIN base |->
        IF phase \in DictKeys(overrides) THEN DictGet(overrides, phase, "")
        ELSE base[phase]]

\* the commands table of generate_run_commands (lines 358-383)
language_commands(pm) ==
    << <<"python", [install |-> "pip install -r requirements.txt",
                    build |-> "python setup.py build",
                    start |-> "python main.py",
                    test |-> "python -m pytest"]>>,
       <<"javascript", [install |-> pm \o " install",
                        build |-> pm \o " run build",
                        start |-> pm \o " start",
                        test |-> pm \o " test"]>>,
       <<"java", [install |-> IF pm = "maven" THEN "mvn install"
                              ELSE "gradle build",
                  build |-> IF pm = "maven" THEN "mvn package"
                            ELSE "gradle build",
                  start |-> "java -jar target/*.jar",
                  test |-> IF pm = "maven" THEN "mvn test"
                           ELSE "gradle test"]>>,
       <<"go", [install |-> "go mod download",
                build |-> "go build -o main .",
                start |-> "./main",
                test |-> "go test ./..."]>> >>

\* framework_overrides of generate_run_commands (lines 386-419)
framework_overrides ==
    << <<"django", << <<"start", "python manage.py runserver 0.0.0.0:8000">>,
                      <<"test", "python manage.py test">> >> >>,
       <<"flask", << <<"start", "python app.py">>,
                     <<"test", "python -m pytest">> >> >>,
       <<"fastapi", << <<"start", "uvicorn main:app --host 0.0.0.0 --port 8000">>,
                       <<"test", "python -m pytest">> >> >>,
       <<"express", << <<"start", "node index.js">>,
                       <<"test", "npm test">> >> >>,
       <<"next", << <<"start", "npm run start">>,
                    <<"build", "npm run build">> >> >>,
       <<"react", << <<"start", "npm start">>,
                     <<"build", "npm run build">> >> >>,
       <<"spring", << <<"start", "java -jar target/*.jar">>,
                      <<"test", "mvn test">> >> >>,
       <<"gin", << <<"start", "./main">>,
                   <<"test", "go test ./...">> >> >> >>

\* the default of commands.get (lines 421-426)
NoCommandAvailable ==
    [install |-> "echo \"No install command available\"",
     build |-> "echo \"No build command available\"",
     start |-> "echo \"No start command available\"",
     test |-> "echo \"No test command available\""]

\* generate_run_commands
generate_run_commands(language, fw, pm) ==
    LET base_commands ==
            DictGet(language_commands(pm), Lower(language), NoCommandAvailable)
    IN  IF fw \in DictKeys(framework_overrides)
        THEN Update(base_commands, DictGet(framework_overrides, fw, <<>>))
        ELSE base_commands

\* A Dockerfile is the list of its FROM, EXPOSE, HEALTHCHECK and CMD
\* instructions; the empty text is the empty list.
DOCKERFILE_TEMPLATES ==
    << <<"python",
         << <<"flask", << <<"FROM", "python:3.9-slim">>, <<"EXPOSE", "8080">>,
                          <<"HEALTHCHECK", "curl -f http://localhost:8080/health || exit 1">>,
                          <<"CMD", "python", "app.py">> >> >>,
            <<"django", << <<"FROM", "python:3.9-slim">>, <<"EXPOSE", "8080">>,
                           <<"HEALTHCHECK", "curl -f http://localhost:8080/health || exit 1">>,
                           <<"CMD", "python", "manage.py", "runserver", "0.0.0.0:8080">> >> >>,
            <<"generic", << <<"FROM", "python:3.9-slim">>, <<"EXPOSE", "8080">>,
                            <<"HEALTHCHECK", "python -c \"import requests; requests.get('http://localhost:8080')\" || exit 1">>,
                            <<"CMD", "python", "main.py">> >> >> >> >>,
       <<"javascript",
         << <<"express", << <<"FROM", "node:18-alpine">>, <<"EXPOSE", "8080">>,
                            <<"HEALTHCHECK", "curl -f http://localhost:8080/health || exit 1">>,
                            <<"CMD", "node", "index.js">> >> >>,
            <<"next", << <<"FROM", "node:18-alpine", "AS", "builder">>,
                         <<"FROM", "node:18-alpine", "AS", "runner">>,
                         <<"EXPOSE", "8080">>,
                         <<"HEALTHCHECK", "curl -f http://localhost:8080/api/health || exit 1">>,
                         <<"CMD", "npm", "start">> >> >>,
            <<"react", << <<"FROM", "node:18-alpine", "AS", "builder">>,
                          <<"FROM", "nginx:alpine", "AS", "runner">>,
                          <<"EXPOSE", "8080">>,
                          <<"HEALTHCHECK", "curl -f http://localhost:8080 || exit 1">>,
                          <<"CMD", "nginx", "-g", "daemon off;">> >> >> >> >>,
       <<"java",
         << <<"spring", << <<"FROM", "openjdk:17-jdk-alpine", "AS", "builder">>,
                           <<"FROM", "openjdk:17-jre-alpine", "AS", "runner">>,
                           <<"EXPOSE", "8080">>,
                           <<"HEALTHCHECK", "curl -f http://localhost:8080/actuator/health || exit 1">>,
                           <<"CMD", "java", "-jar", "app.jar">> >> >> >> >>,
       <<"go",
         << <<"gin", << <<"FROM", "golang:1.20-alpine", "AS", "builder">>,
                        <<"FROM", "alpine:latest", "AS", "runner">>,
                        <<"EXPOSE", "8080">>,
                        <<"HEALTHCHECK", "wget --no-verbose --tries=1 --spider http://localhost:8080/health || exit 1">>,
                        <<"CMD", "./main">> >> >> >> >> >>

\* get_dockerfile_template
get_dockerfile_template(language, fw) ==
    IF Lower(language) \in DictKeys(DOCKERFILE_TEMPLATES)
    THEN LET templates == DictGet(DOCKERFILE_TEMPLATES, Lower(language), <<>>)
         IN  DictGet(templates, fw, DictGet(templates, "generic", <<>>))
    ELSE <<>>

\* Variant of generate_fallback_dockerfile: the minimal Dockerfile for
\* every language.
generate_fallback_dockerfile_AlwaysMinimal(language, fw) ==
    << <<"FROM", "alpine:latest">>, <<"EXPOSE", "8080">>,
       <<"CMD", "echo", "Please configure the application start command">> >>

\* RepoContainerizer._generate_fallback_dockerfile
generate_fallback_dockerfile(language, fw) ==
    IF Lower(language) = "python"
    THEN << <<"FROM", "python:3.9-slim">>, <<"EXPOSE", "8080">>,
            <<"CMD", "python", "main.py">> >>
    ELSE IF Lower(language) = "javascript"
    THEN << <<"FROM", "node:18-alpine">>, <<"EXPOSE", "8080">>,
            <<"CMD", "node", "index.js">> >>
    ELSE << <<"FROM", "alpine:latest">>, <<"EXPOSE", "8080">>,
            <<"CMD", "echo", "Please configure the application start command">> >>

\* A compose file is the list of its services (name, image or build, port
\* mapping) and named volumes.
DOCKER_COMPOSE_TEMPLATES ==
    << <<"python_postgresql",
         << <<"service", "app", "build: .", "8080:8080">>,
            <<"service", "db", "image: postgres:13">>,
            <<"volume", "postgres_data">> >> >>,
       <<"node_redis",
         << <<"service", "app", "build: .", "8080:8080">>,
            <<"service", "redis", "image: redis:7-alpine">>,
            <<"volume", "logs">> >> >>,
       <<"generic",
         << <<"service", "app", "build: .", "8080:8080">>,
            <<"volume", "logs">> >> >> >>

\* get_docker_compose_template
get_docker_compose_template(stack) ==
    DictGet(DOCKER_COMPOSE_TEMPLATES, stack,
            DictGet(DOCKER_COMPOSE_TEMPLATES, "generic", <<>>))

\* Variant of SelectComposeTemplate: redis is tested before postgresql.
SelectComposeTemplate_RedisFirst(dbs) ==
    IF dbs # <<>>
    THEN IF "redis" \in Range(dbs)
         THEN get_docker_compose_template("node_redis")
         ELSE IF "postgresql" \in Range(dbs)
         THEN get_docker_compose_template("python_postgresql")
         ELSE get_docker_compose_template("generic")
    ELSE get_docker_compose_template("generic")

\* lines 239-247 of analyze_with_llm
SelectComposeTemplate(dbs) ==
    IF dbs # <<>>
    THEN IF "postgresql" \in Range(dbs)
         THEN get_docker_compose_template("python_postgresql")
         ELSE IF "redis" \in Range(dbs)
         THEN get_docker_compose_template("node_redis")
         ELSE get_docker_compose_template("generic")
    ELSE get_docker_compose_template("generic")

------------------------------------------------------------------------------
(* repo_containerizer.py: the LLM response and its parsing *)

\* the fields of the RepositoryAnalysis dataclass
ProfileFields ==
    {"primary_language", "framework", "package_manager", "database",
     "external_services", "dependencies", "build_tools", "port",
     "environment_vars", "commands", "dockerfile_content",
     "docker_compose_content", "health_check"}

\* The body of a response: text that is not JSON, a JSON array, or a JSON
\* object given by its keys and their values.
NoBody == [syntax |-> "none", data |-> <<>>]
Garbage == [syntax |-> "garbage", data |-> <<>>]
ArrayBody == [syntax |-> "array", data |-> <<>>]
ObjectBody(data) == [syntax |-> "object", data |-> data]

\* The tokens of a response text.
Whitespace == [t |-> "ws", body |-> NoBody]
Fence == [t |-> "fence", body |-> NoBody]   \* three backquotes
JsonTag == [t |-> "json", body |-> NoBody]
Body(b) == [t |-> "body", body |-> b]

\* str.strip()
RECURSIVE lstrip(_)
lstrip(text) ==
    IF text # <<>> /\ Head(text).t = "ws" THEN lstrip(Tail(text)) ELSE text

RECURSIVE rstrip(_)
rstrip(text) ==
    IF text # <<>> /\ text[Len(text)].t = "ws"
    THEN rstrip(SubSeq(text, 1, Len(text) - 1)) ELSE text

strip(text) == rstrip(lstrip(text))

\* response_text.startswith(fence + "json")
StartsWithFenceJson(text) ==
    Len(text) >= 2 /\ text[1].t = "fence" /\ text[2].t = "json"

\* response_text.endswith(fence)
EndsWithFence(text) == text # <<>> /\ text[Len(text)].t = "fence"

\* lines 325-330 of analyze_with_llm
CleanResponse(text) ==
    LET stripped == strip(text)
        opened == IF StartsWithFenceJson(stripped)
                  THEN SubSeq(stripped, 3, Len(stripped)) ELSE stripped
        closed == IF EndsWithFence(opened)
                  THEN SubSeq(opened, 1, Len(opened) - 1) ELSE opened
    IN  strip(closed)

\* json.loads(response_text): the text is JSON when it is one JSON value
json_loads(text) ==
    IF Len(text) = 1 /\ text[1].t = "body"
          /\ text[1].body.syntax \in {"array", "object"}
    THEN Returned(text[1].body)
    ELSE Raised("JSONDecodeError")

\* RepositoryAnalysis called with the parsed data as keyword arguments: the
\* data must be a mapping whose keys are exactly the fields of the dataclass
RepositoryAnalysis(analysis_data) ==
    IF analysis_data.syntax = "object"
          /\ DOMAIN analysis_data.data = ProfileFields
    THEN Returned(analysis_data.data)
    ELSE Raised("TypeError")

\* lines 344-358 of analyze_with_llm: the profile built from the pre-analysis
FallbackAnalysis ==
    [primary_language |-> primary_language,
     framework |-> framework,
     package_manager |-> package_manager,
     database |-> IF databases # <<>> THEN databases[1] ELSE "none",
     external_services |-> IF Len(databases) > 1 THEN Tail(databases) ELSE <<>>,
     dependencies |-> dependencies,
     build_tools |-> build_tools,
     port |-> port,
     environment_vars |-> env_vars,
     commands |-> commands,
     dockerfile_content |->
         IF dockerfile_template # <<>> THEN dockerfile_template
         ELSE generate_fallback_dockerfile(primary_language, framework),
     docker_compose_content |-> compose_template,
     health_check |-> health_check]

\* Variant of RefinementResult: the handler catches json.JSONDecodeError
\* only, so the TypeError of the dataclass constructor leaves the method.
RefinementResult_OnlyJsonErrorCaught(r) ==
    IF r.raises THEN Returned(FallbackAnalysis)
    ELSE LET analysis_data == json_loads(CleanResponse(r.text))
         IN  IF analysis_data.exc # "none" THEN Returned(FallbackAnalysis)
             ELSE RepositoryAnalysis(analysis_data.value)

\* lines 310-358 of analyze_with_llm: what the try/except returns for a
\* response; every exception raised inside the try is caught
RefinementResult(r) ==
    IF r.raises THEN Returned(FallbackAnalysis)
    ELSE LET analysis_data == json_loads(CleanResponse(r.text))
         IN  IF analysis_data.exc # "none" THEN Returned(FallbackAnalysis)
             ELSE LET analysis == RepositoryAnalysis(analysis_data.value)
                  IN  IF analysis.exc # "none" THEN Returned(FallbackAnalysis)
                      ELSE analysis

------------------------------------------------------------------------------
(* Inputs: repositories and LLM responses *)

NodePackages == {"react", "redis"}

\* contents of package.json: texts that are not JSON, JSON values that are
\* not objects, and objects whose three keys of interest have every shape
PackageJsonContents ==
    LET make(j, extra) == Content(j, JsonWords(j) \cup extra, <<>>, NoPorts, {})
        depsShapes == {Absent, JNull, JList(<<"react">>)}
                          \cup {JDict(k) : k \in SeqsNoDup(NodePackages, 2)}
    IN  {make(JInvalid, {}), make(JInvalid, {"react"}), make(JArray, {}),
         make(JString, {"express"})}
        \cup {make(JObject(d, Absent, Absent), {}) : d \in depsShapes}
        \cup {make(JObject(JDict(<<"react">>), dev, Absent), {}) :
                 dev \in {JNull, JDict(<<"react">>), JDict(<<"express">>)}}
        \cup {make(JObject(Absent, Absent, scripts), {}) :
                 scripts \in {JNull, JDict(<<"build", "start">>)}}

\* contents of requirements.txt
RequirementsContents ==
    {Content(JInvalid, LineWords(lines), lines, NoPorts, {}) :
        lines \in SeqsUpTo({ReqLine("flask"), CommentLine}, MaxLines)}

\* read_important_files: the config files of the list, in list order, each
\* with its content; a file that cannot be read is left out
RECURSIVE read_important_files(_)
read_important_files(fs) ==
    IF fs = <<>> THEN {<<>>}
    ELSE LET rest == read_important_files(Tail(fs))
             choices ==
                 IF Head(fs) = "package.json" THEN PackageJsonContents
                 ELSE IF Head(fs) = "requirements.txt" THEN RequirementsContents
                 ELSE {}
         IN  rest \cup {<< <<Head(fs), c>> >> \o r : c \in choices, r \in rest}

\* a value of the type of the field that differs from v
Alt(field, v) ==
    CASE field = "primary_language" -> IF v = "Go" THEN "Rust" ELSE "Go"
      [] field = "framework" -> IF v = "gin" THEN "echo" ELSE "gin"
      [] field = "package_manager" -> IF v = "go" THEN "dep" ELSE "go"
      [] field = "database" -> IF v = "mysql" THEN "sqlite" ELSE "mysql"
      [] field = "external_services" -> Append(v, "kafka")
      [] field = "dependencies" -> Append(v, "left-pad")
      [] field = "build_tools" -> Append(v, "bazel")
      [] field = "port" -> IF v = 9090 THEN 9091 ELSE 9090
      [] field = "environment_vars" -> Append(v, <<"LLM_VAR", "added">>)
      [] field = "commands" -> [v EXCEPT !.start = "refined " \o v.start]
      [] field = "dockerfile_content" -> Append(v, <<"USER", "appuser">>)
      [] field = "docker_compose_content" -> Append(v, <<"service", "cache">>)
      [] field = "health_check" -> v \o " # refined"

\* a JSON number that is no TCP port; int fields of the dataclass are not
\* validated
OutOfRangePort == 70000

\* the response repeats the pre-analysis or departs from it in one field
ChangedSets == {{}} \cup {{f} : f \in ProfileFields}

\* the profile the LLM sends back: the pre-analysis, changed in some fields
Candidate(det, changed) ==
    [f \in ProfileFields |-> IF f \in changed THEN Alt(f, det[f]) ELSE det[f]]

ResponseBodies(det) ==
    {Garbage, ArrayBody}
    \cup {ObjectBody(Candidate(det, c)) : c \in ChangedSets}
    \cup {ObjectBody([det EXCEPT !.port = OutOfRangePort]),
          ObjectBody([f \in ProfileFields \ {"health_check"} |-> det[f]]),
          ObjectBody([f \in ProfileFields \cup {"notes"} |->
                         IF f = "notes" THEN "refined" ELSE det[f]])}

Prefixes == {<<>>, <<Fence, Whitespace>>, <<Fence, JsonTag, Whitespace>>}
Suffixes == {<<>>, <<Whitespace, Fence, Whitespace>>}

\* what model.generate_content and response.text can produce
Responses(det) ==
    {[raises |-> TRUE, text |-> <<>>]}
    \cup {[raises |-> FALSE, text |-> pre \o <<Body(b)>> \o suf] :
             pre \in Prefixes, suf \in Suffixes, b \in ResponseBodies(det)}

------------------------------------------------------------------------------
(* RepoContainerizer.analyze_with_llm *)

NoCommands == [install |-> "", build |-> "", start |-> "", test |-> ""]
NoResponse == [raises |-> FALSE, text |-> <<>>]
NoResult == [exc |-> "pending", value |-> <<>>]

\* the standalone tool (repocontainerizer.py) before any of its commands runs
NoCli ==
    [pc |-> "idle", language |-> "", framework |-> "", dependencies |-> <<>>,
     use_uv |-> FALSE, commands |-> <<>>, dockerfile_content |-> <<>>,
     compose_content |-> <<>>, format_type |-> "yaml",
     YAML_AVAILABLE |-> TRUE]

\* no output directory yet, and nothing reported as generated
NoOutput == [dir |-> <<>>, generated_files |-> <<>>]

\* no Config object constructed, no config.json in the home directory
NoConfig ==
    [pc |-> "idle", data |-> <<>>, loaded |-> <<>>,
     config_file |-> [kind |-> "missing", data |-> <<>>],
     writable |-> TRUE, calls |-> <<>>, returned |-> "None"]

\* run_cmd_with_fixes not called
NoAgent ==
    [pc |-> "idle", max_fix_attempts |-> 0, attempt |-> 0, runs |-> <<>>,
     fixes |-> <<>>, returned |-> [success |-> FALSE, stderr |-> ""]]

ToolsIdle ==
    /\ output = NoOutput
    /\ config = NoConfig
    /\ agent = NoAgent

StandaloneIdle ==
    /\ repo_path = {}
    /\ package_data = JInvalid
    /\ cli = NoCli

Init ==
    /\ files \in SeqsNoDup(FileNames, MaxFiles)
    /\ file_contents \in read_important_files(files)
    /\ pc = "classify"
    /\ language_counts = <<>>
    /\ primary_language = ""
    /\ framework = ""
    /\ package_manager = ""
    /\ databases = <<>>
    /\ port = 0
    /\ env_vars = <<>>
    /\ build_tools = <<>>
    /\ dependencies = <<>>
    /\ dockerfile_template = <<>>
    /\ compose_template = <<>>
    /\ commands = NoCommands
    /\ health_check = ""
    /\ response = NoResponse
    /\ result = NoResult
    /\ StandaloneIdle
    /\ ToolsIdle

\* lines 222-223
Classify ==
    /\ pc = "classify"
    /\ language_counts' = detect_language_from_files(files)
    /\ primary_language' = PrimaryLanguage(language_counts')
    /\ pc' = "detect"
    /\ UNCHANGED <<files, file_contents, framework, package_manager,
                   databases, port, env_vars, build_tools, dependencies,
                   dockerfile_template, compose_template, commands,
                   health_check, response, result>>
    /\ UNCHANGED <<standalone_vars, tool_vars>>

\* lines 225-230; an exception of detect_build_tools leaves the method
DetectStack ==
    /\ pc = "detect"
    /\ framework' \in detect_framework_from_files(files, file_contents)
    /\ package_manager' = detect_package_manager(files)
    /\ databases' = detect_database_requirements(file_contents)
    /\ port' = detect_port_from_files(file_contents)
    /\ env_vars' \in detect_environment_variables(file_contents)
    /\ \E tools \in detect_build_tools(files, file_contents) :
          IF tools.exc # "none"
          THEN /\ pc' = "raised"
               /\ result' = tools
               /\ UNCHANGED build_tools
          ELSE /\ pc' = "extract"
               /\ build_tools' = tools.value
               /\ UNCHANGED result
    /\ UNCHANGED <<files, file_contents, language_counts, primary_language,
                   dependencies, dockerfile_template, compose_template,
                   commands, health_check, response>>
    /\ UNCHANGED <<standalone_vars, tool_vars>>

\* line 231; an exception of extract_dependencies leaves the method
ExtractDependencies ==
    /\ pc = "extract"
    /\ \E deps \in extract_dependencies(file_contents) :
          IF deps.exc # "none"
          THEN /\ pc' = "raised"
               /\ result' = deps
               /\ UNCHANGED dependencies
          ELSE /\ pc' = "templates"
               /\ dependencies' = deps.value
               /\ UNCHANGED result
    /\ UNCHANGED <<files, file_contents, language_counts, primary_language,
                   framework, package_manager, databases, port, env_vars,
                   build_tools, dockerfile_template, compose_template,
                   commands, health_check, response>>
    /\ UNCHANGED <<standalone_vars, tool_vars>>

\* lines 234-247
SelectTemplates ==
    /\ pc = "templates"
    /\ dockerfile_template' =
          LET t == get_dockerfile_template(primary_language, framework)
          IN  IF t = <<>>
              THEN get_dockerfile_template(primary_language, "generic")
              ELSE t
    /\ compose_template' = SelectComposeTemplate(databases)
    /\ pc' = "commands"
    /\ UNCHANGED <<files, file_contents, language_counts, primary_language,
                   framework, package_manager, databases, port, env_vars,
                   build_tools, dependencies, commands, health_check,
                   response, result>>
    /\ UNCHANGED <<standalone_vars, tool_vars>>

\* lines 250-251
GenerateCommands ==
    /\ pc = "commands"
    /\ commands' = generate_run_commands(primary_language, framework,
                                         package_manager)
    /\ health_check' = generate_health_check_command(primary_language,
                                                     framework, port)
    /\ pc' = "refine"
    /\ UNCHANGED <<files, file_contents, language_counts, primary_language,
                   framework, package_manager, databases, port, env_vars,
                   build_tools, dependencies, dockerfile_template,
                   compose_template, response, result>>
    /\ UNCHANGED <<standalone_vars, tool_vars>>

\* lines 310-358: the LLM call, the parsing of its response, the fallback
Refine ==
    /\ pc = "refine"
    /\ \E r \in Responses(FallbackAnalysis) :
          /\ response' = r
          /\ result' = RefinementResult(r)
    /\ pc' = "done"
    /\ UNCHANGED <<files, file_contents, language_counts, primary_language,
                   framework, package_manager, databases, port, env_vars,
                   build_tools, dependencies, dockerfile_template,
                   compose_template, commands, health_check>>
    /\ UNCHANGED <<standalone_vars, tool_vars>>

Next ==
    \/ Classify
    \/ DetectStack
    \/ ExtractDependencies
    \/ SelectTemplates
    \/ GenerateCommands
    \/ Refine

Spec == Init /\ [][Next]_vars

------------------------------------------------------------------------------
(* Port detection over the main application files *)

MaxSnippets == 2

PortSnippets ==
    {PortSnippet(k, n) : k \in {"port = ", "app.listen("},
                         n \in {80, 3000, 5000}}

\* the text of a main application file (lines 196-213): port pieces, and
\* possibly the word express
MainFileContents ==
    {Content(JInvalid, w, <<>>, s, {}) :
        w \in {{}, {"express"}}, s \in SeqsUpTo(PortSnippets, MaxSnippets)}

\* lines 203-213: each main file with its text
RECURSIVE ReadMainFiles(_, _)
ReadMainFiles(fs, texts) ==
    IF fs = <<>> THEN {<<>>}
    ELSE {<< <<Head(fs), c>> >> \o r :
             c \in texts, r \in ReadMainFiles(Tail(fs), texts)}

\* a repository of one or two main application files, both read
InitPorts ==
    /\ files \in SeqsNoDup({"index.js", "server.js"}, 2) \ {<<>>}
    /\ file_contents \in ReadMainFiles(files, MainFileContents)
    /\ pc = "classify"
    /\ language_counts = <<>>
    /\ primary_language = ""
    /\ framework = ""
    /\ package_manager = ""
    /\ databases = <<>>
    /\ port = 0
    /\ env_vars = <<>>
    /\ build_tools = <<>>
    /\ dependencies = <<>>
    /\ dockerfile_template = <<>>
    /\ compose_template = <<>>
    /\ commands = NoCommands
    /\ health_check = ""
    /\ response = NoResponse
    /\ result = NoResult
    /\ StandaloneIdle
    /\ ToolsIdle

NextDetect == Classify \/ DetectStack

SpecPorts == InitPorts /\ [][NextDetect]_vars

------------------------------------------------------------------------------
(* Service detection over the main application files *)

\* the text of a main application file: any of the words redis, psycopg2
\* and mongodb occur in it
ServiceFileContents ==
    {Content(JInvalid, w, <<>>, NoPorts, {}) :
        w \in SUBSET {"redis", "psycopg2", "mongodb"}}

\* a repository of one or two main application files, both read
InitServices ==
    /\ files \in SeqsNoDup({"index.js", "server.js"}, 2) \ {<<>>}
    /\ file_contents \in ReadMainFiles(files, ServiceFileContents)
    /\ pc = "classify"
    /\ language_counts = <<>>
    /\ primary_language = ""
    /\ framework = ""
    /\ package_manager = ""
    /\ databases = <<>>
    /\ port = 0
    /\ env_vars = <<>>
    /\ build_tools = <<>>
    /\ dependencies = <<>>
    /\ dockerfile_template = <<>>
    /\ compose_template = <<>>
    /\ commands = NoCommands
    /\ health_check = ""
    /\ response = NoResponse
    /\ result = NoResult
    /\ StandaloneIdle
    /\ ToolsIdle

SpecServices == InitServices /\ [][NextDetect]_vars

------------------------------------------------------------------------------
(* Properties of the refinement step *)

\* the body of text carried by a response
BodyOf(r) ==
    LET i == CHOOSE i \in 1..Len(r.text) : r.text[i].t = "body"
    IN  r.text[i].body

HasBody(r) == ~ r.raises /\ \E i \in 1..Len(r.text) : r.text[i].t = "body"

\* the response is a JSON object with exactly the fields of the profile
\* schema, bare or wrapped in a complete code fence
IsBare(r) == ~ r.raises /\ Len(r.text) = 1 /\ r.text[1].t = "body"

IsFenced(r) ==
    /\ HasBody(r)
    /\ \E pre \in {<<Fence, Whitespace>>, <<Fence, JsonTag, Whitespace>>} :
          r.text = pre \o <<Body(BodyOf(r))>> \o <<Whitespace, Fence, Whitespace>>

IsProfileJson(r) ==
    /\ HasBody(r)
    /\ BodyOf(r).syntax = "object"
    /\ DOMAIN BodyOf(r).data = ProfileFields

\* the code returned the parsed response instead of the fallback
Accepted ==
    /\ pc = "done"
    /\ IsProfileJson(response)
    /\ result.exc = "none"
    /\ result.value = BodyOf(response).data

\* C1: a response that parses as a profile whose primary_language or
\* framework differs from the detected values is discarded: the returned
\* profile equals the deterministic profile in every field.
C1_MismatchedRefinementDiscarded ==
    (/\ pc = "done"
     /\ IsProfileJson(response)
     /\ (IsBare(response) \/ IsFenced(response))
     /\ \/ BodyOf(response).data.primary_language # primary_language
        \/ BodyOf(response).data.framework # framework)
    => /\ result.exc = "none"
       /\ \A f \in ProfileFields : result.value[f] = FallbackAnalysis[f]

\* C2: an accepted refinement differs from the deterministic profile at
\* most in dockerfile_content, docker_compose_content and health_check.
C2_AcceptedRefinementKeepsDetectedFields ==
    Accepted =>
        \A f \in ProfileFields \ {"dockerfile_content",
                                   "docker_compose_content", "health_check"} :
            result.value[f] = FallbackAnalysis[f]

\* the three ways the refinement step fails: the LLM call raises, the
\* response is not JSON, the JSON does not have exactly the schema's fields
\* (a JSON value that is not an object has none of them)
RefinementFails(r) ==
    \/ r.raises
    \/ /\ HasBody(r)
       /\ \/ BodyOf(r).syntax = "garbage"
          \/ BodyOf(r).syntax = "array"
          \/ BodyOf(r).syntax = "object" /\ DOMAIN BodyOf(r).data # ProfileFields

\* C3: whenever the refinement step fails, analyze_with_llm raises nothing
\* and returns exactly the profile built from the pre-analysis values.
C3_FailedRefinementReturnsFallback ==
    (pc = "done" /\ RefinementFails(response))
    => /\ result.exc = "none"
       /\ result.value = FallbackAnalysis

\* C3 witness: a response with a missing field, one with an extra field, a
\* non-JSON one and a raising call each ended in the fallback profile.
C3_Witness ==
    /\ pc = "done"
    /\ HasBody(response)
    /\ BodyOf(response).syntax = "object"
    /\ "health_check" \notin DOMAIN BodyOf(response).data
    /\ result.exc = "none"
    /\ result.value = FallbackAnalysis

\* C4: a profile JSON wrapped in a code fence, with or without the json
\* language tag, gives the same result as the same JSON sent unwrapped.
C4_FenceWrappingIsTransparent ==
    (pc = "done" /\ IsProfileJson(response) /\ IsFenced(response))
    => result = RefinementResult([raises |-> FALSE,
                                  text |-> <<Body(BodyOf(response))>>])

------------------------------------------------------------------------------
(* Properties of the deterministic analysis *)

Analysed == pc \notin {"classify", "detect"}

\* C5: the deterministic analysis never lets an exception escape, whatever
\* the file list and the manifest contents.
C5_NoExceptionEscapesAnalysis == pc # "raised"

AllFrameworkNames ==
    UNION {Range(framework_indicators[i][2]) : i \in 1..Len(framework_indicators)}

MarkerFiles == DictKeys(framework_files)

NoFrameworkSignal ==
    /\ Range(files) \cap MarkerFiles = {}
    /\ \A i \in 1..Len(file_contents) :
          file_contents[i][2].words \cap AllFrameworkNames = {}

MalformedPackageJson ==
    /\ "package.json" \in DictKeys(file_contents)
    /\ DictGet(file_contents, "package.json", <<>>).json.kind = "invalid"

C7_PrimaryLanguageOrderIndependent ==
    pc # "classify" =>
        \A order \in ListOfSet(Range(files)) :
            PrimaryLanguage(detect_language_from_files(order)) = primary_language

\* the (file name -> manager) priority table of the specification
ManagerPriority ==
    << <<"uv.lock", "uv">>, <<"yarn.lock", "yarn">>, <<"pnpm-lock.yaml", "pnpm">>,
       <<"package.json", "npm">>, <<"requirements.txt", "pip">>,
       <<"pyproject.toml", "pip">> >>

\* C8: the package manager is that of the highest-priority table file that
\* is present, whatever the order of the file list: yarn.lock with
\* package.json gives yarn, uv.lock gives uv, no table file gives "unknown".
C8_PackageManagerByTablePriority ==
    Analysed =>
        /\ {"yarn.lock", "package.json"} \subseteq Range(files)
              => package_manager = "yarn"
        /\ "uv.lock" \in Range(files) => package_manager = "uv"
        /\ Range(files) \cap (DictKeys(package_managers) \cup DictKeys(ManagerPriority)) = {}
              => package_manager = "unknown"
        /\ \A order \in ListOfSet(Range(files)) :
              detect_package_manager(order) = package_manager

\* C9: a marker file decides the framework whatever the manifests contain;
\* content sniffing decides only without marker files; "generic" only
\* without any signal.
C9_MarkerFilesBeforeContentSniffing ==
    Analysed =>
        LET markers == Range(MarkerFrameworks(files))
            sniffed == Range(SniffedFrameworks(file_contents))
        IN  /\ markers # {} => framework \in markers
            /\ (markers = {} /\ sniffed # {}) => framework \in sniffed
            /\ framework = "generic" => (markers = {} /\ sniffed = {})

\* the repository of the example: the file package.json with the content
\* {"dependencies":{"react":"18.0.0"}}
ReactPackageJson ==
    Content(JObject(JDict(<<"react">>), Absent, Absent), {"react"}, <<>>,
            NoPorts, {})

ReactRepository ==
    /\ files = <<"package.json">>
    /\ file_contents = << <<"package.json", ReactPackageJson>> >>

\* C10 as stated: the example repository is JavaScript / react / npm.
C10_ReactExampleIsJavaScript ==
    (ReactRepository /\ Analysed)
    => /\ primary_language = "JavaScript"
       /\ framework = "react"
       /\ package_manager = "npm"

\* C10 amended: the language is read from file extensions only, and the
\* extension .json is the language "JSON"; framework and package manager
\* are as stated.
C10_ReactExampleIsJson ==
    (ReactRepository /\ Analysed)
    => /\ primary_language = "JSON"
       /\ framework = "react"
       /\ package_manager = "npm"

C10_Witness ==
    /\ ReactRepository
    /\ pc = "done"
    /\ response.raises
    /\ result.exc = "none"
    /\ result.value.primary_language = "JSON"
    /\ result.value.framework = "react"
    /\ result.value.package_manager = "npm"

------------------------------------------------------------------------------
(* repocontainerizer.py: RepositoryAnalyzer of the standalone tool *)

\* A shell command is the list of its words; its first word is the program.
Cmd(words) == words

NoBuildCommands ==
    [setup |-> <<>>, build |-> <<>>, run |-> <<>>, test |-> <<>>,
     install |-> <<>>]

\* key order of the commands dict (lines 347-353)
Phases == <<"setup", "build", "run", "test", "install">>

\* lines 356-382: install and setup commands of a Python project
PythonInstall(repo) ==
    LET has_uv_lock == "uv.lock" \in repo
        has_pyproject == "pyproject.toml" \in repo
        has_requirements == "requirements.txt" \in repo
    IN  IF has_uv_lock \/ (has_pyproject /\ ~has_requirements)
        THEN [NoBuildCommands EXCEPT
                 !.install = <<Cmd(<<"uv", "sync">>)>>
                     \o (IF has_pyproject
                         THEN <<Cmd(<<"uv", "pip", "install", "-e", ".">>)>>
                         ELSE <<>>),
                 !.setup = <<Cmd(<<"uv", "venv">>)>>]
        ELSE IF has_requirements
        THEN [NoBuildCommands EXCEPT !.install =
                 <<Cmd(<<"uv", "pip", "install", "-r", "requirements.txt">>)>>]
        ELSE IF has_pyproject
        THEN [NoBuildCommands EXCEPT !.install =
                 <<Cmd(<<"uv", "pip", "install", ".">>)>>]
        ELSE IF "setup.py" \in repo
        THEN [NoBuildCommands EXCEPT !.install =
                 <<Cmd(<<"uv", "pip", "install", "-e", ".">>)>>]
        ELSE IF has_requirements
        THEN [NoBuildCommands EXCEPT !.install =
                 <<Cmd(<<"pip", "install", "-r", "requirements.txt">>)>>]
        ELSE IF has_pyproject
        THEN [NoBuildCommands EXCEPT !.install =
                 <<Cmd(<<"pip", "install", ".">>)>>]
        ELSE IF "setup.py" \in repo
        THEN [NoBuildCommands EXCEPT !.install =
                 <<Cmd(<<"pip", "install", "-e", ".">>)>>]
        ELSE NoBuildCommands

\* lines 400-404: the first main file that exists
RECURSIVE FirstExisting(_, _)
FirstExisting(names, repo) ==
    IF names = <<>> THEN <<>>
    ELSE IF Head(names) \in repo THEN <<Cmd(<<"python", Head(names)>>)>>
    ELSE FirstExisting(Tail(names), repo)

\* lines 384-405: framework-specific commands of a Python project
PythonFramework(c, repo, fw) ==
    IF fw = "django"
    THEN [c EXCEPT
             !.setup = @ \o <<Cmd(<<"python", "manage.py", "migrate">>),
                              Cmd(<<"python", "manage.py", "collectstatic",
                                    "--noinput">>)>>,
             !.run = @ \o <<Cmd(<<"python", "manage.py", "runserver",
                                  "0.0.0.0:8000">>)>>,
             !.test = @ \o <<Cmd(<<"python", "manage.py", "test">>)>>]
    ELSE IF fw = "flask"
    THEN [c EXCEPT !.run = @ \o <<Cmd(<<"python", "app.py">>)>>,
                   !.test = @ \o <<Cmd(<<"python", "-m", "pytest">>)>>]
    ELSE IF fw = "fastapi"
    THEN [c EXCEPT
             !.run = @ \o <<Cmd(<<"uvicorn", "main:app", "--host", "0.0.0.0",
                                  "--port", "8000">>)>>,
             !.test = @ \o <<Cmd(<<"python", "-m", "pytest">>)>>]
    ELSE [c EXCEPT
             !.run = @ \o FirstExisting(<<"main.py", "app.py", "run.py",
                                          "server.py">>, repo),
             !.test = @ \o <<Cmd(<<"python", "-m", "pytest">>)>>]

\* lines 442-446: the except branch of the package.json block
NpmFallback(c) ==
    [c EXCEPT !.build = @ \o <<Cmd(<<"npm", "run", "build">>)>>,
              !.run = @ \o <<Cmd(<<"npm", "start">>)>>,
              !.test = @ \o <<Cmd(<<"npm", "test">>)>>]

\* lines 419-440: the script mappings, then the framework's
\* additions; scripts is the set of script names
NpmScripts(c, scripts, fw) ==
    LET has(k) == k \in scripts
        add(k, cmd) == IF has(k) THEN <<Cmd(cmd)>> ELSE <<>>
        mapped == [c EXCEPT
                      !.run = @ \o add("start", <<"npm", "start">>)
                                \o add("dev", <<"npm", "run", "dev">>),
                      !.build = @ \o add("build", <<"npm", "run", "build">>),
                      !.test = @ \o add("test", <<"npm", "test">>)]
    IN  IF fw = "react"
        THEN [mapped EXCEPT
                 !.build = @ \o (IF has("build") THEN <<>>
                                 ELSE <<Cmd(<<"npm", "run", "build">>)>>),
                 !.run = @ \o (IF has("start") THEN <<>>
                               ELSE <<Cmd(<<"npm", "start">>)>>)]
        ELSE IF fw = "next"
        THEN [mapped EXCEPT
                 !.build = @ \o <<Cmd(<<"npm", "run", "build">>)>>,
                 !.run = @ \o <<Cmd(<<"npm", "run", "start">>)>>]
        ELSE IF fw = "express"
        THEN [mapped EXCEPT
                 !.run = @ \o (IF has("start") THEN <<>>
                               ELSE <<Cmd(<<"node", "server.js">>)>>)]
        ELSE mapped

\* lines 407-446: a JavaScript project; json.load, .get('scripts', {}) or
\* the first in test raise for a text that is no JSON object or whose
\* scripts is null, and the except branch takes over
JavaScriptCommands(repo, pd, fw) ==
    IF "package.json" \notin repo THEN NoBuildCommands
    ELSE LET c == [NoBuildCommands EXCEPT
                      !.install = <<Cmd(<<"npm", "install">>)>>]
         IN  IF pd.kind # "object" \/ pd.scripts.kind = "null"
             THEN NpmFallback(c)
             ELSE NpmScripts(c, Range(pd.scripts.keys), fw)

\* the four phases install, build, run, test of one toolchain
Toolchain(install, build, run, test) ==
    [NoBuildCommands EXCEPT !.install = install, !.build = build,
                            !.run = run, !.test = test]

\* lines 448-509: the other languages
OtherCommands(repo, language) ==
    IF language = "java"
    THEN IF "pom.xml" \in repo
         THEN Toolchain(<<Cmd(<<"mvn", "clean", "install">>)>>,
                        <<Cmd(<<"mvn", "package">>)>>,
                        <<Cmd(<<"mvn", "spring-boot:run">>)>>,
                        <<Cmd(<<"mvn", "test">>)>>)
         ELSE IF "build.gradle" \in repo
         THEN Toolchain(<<Cmd(<<"./gradlew", "build">>)>>,
                        <<Cmd(<<"./gradlew", "assemble">>)>>,
                        <<Cmd(<<"./gradlew", "bootRun">>)>>,
                        <<Cmd(<<"./gradlew", "test">>)>>)
         ELSE NoBuildCommands
    ELSE IF language = "go"
    THEN Toolchain(IF "go.mod" \in repo
                   THEN <<Cmd(<<"go", "mod", "download">>)>>
                   ELSE <<Cmd(<<"go", "get", "./...">>)>>,
                   <<Cmd(<<"go", "build", "-o", "app", ".">>)>>,
                   <<Cmd(<<"./app">>)>>,
                   <<Cmd(<<"go", "test", "./...">>)>>)
    ELSE IF language = "rust"
    THEN IF "Cargo.toml" \in repo
         THEN Toolchain(<<>>, <<Cmd(<<"cargo", "build", "--release">>)>>,
                        <<Cmd(<<"cargo", "run">>)>>,
                        <<Cmd(<<"cargo", "test">>)>>)
         ELSE NoBuildCommands
    ELSE IF language = "php"
    THEN IF "composer.json" \in repo
         THEN Toolchain(<<Cmd(<<"composer", "install">>)>>, <<>>,
                        <<Cmd(<<"php", "-S", "localhost:8000">>)>>,
                        <<Cmd(<<"./vendor/bin/phpunit">>)>>)
         ELSE Toolchain(<<>>, <<>>,
                        <<Cmd(<<"php", "-S", "localhost:8000">>)>>, <<>>)
    ELSE IF language = "ruby"
    THEN IF "Gemfile" \in repo
         THEN Toolchain(<<Cmd(<<"bundle", "install">>)>>, <<>>,
                        <<Cmd(<<"bundle", "exec", "rails", "server">>)>>,
                        <<Cmd(<<"bundle", "exec", "rspec">>)>>)
         ELSE NoBuildCommands
    ELSE IF language \in {"c", "cpp"}
    THEN IF "CMakeLists.txt" \in repo
         THEN [NoBuildCommands EXCEPT
                  !.setup = <<Cmd(<<"mkdir", "-p", "build">>),
                              Cmd(<<"cd", "build">>)>>,
                  !.build = <<Cmd(<<"cmake", "..">>), Cmd(<<"make">>)>>,
                  !.run = <<Cmd(<<"./main">>)>>]
         ELSE IF "Makefile" \in repo
         THEN [NoBuildCommands EXCEPT !.build = <<Cmd(<<"make">>)>>,
                                      !.run = <<Cmd(<<"./main">>)>>]
         ELSE NoBuildCommands
    ELSE NoBuildCommands

\* line 512: the dict without its empty lists, keys in their first order
RECURSIVE NonEmptyPhases(_, _)
NonEmptyPhases(c, phases) ==
    IF phases = <<>> THEN <<>>
    ELSE (IF c[Head(phases)] # <<>>
          THEN << <<Head(phases), c[Head(phases)]>> >> ELSE <<>>)
         \o NonEmptyPhases(c, Tail(phases))

\* RepositoryAnalyzer.detect_build_commands
detect_build_commands(repo, pd, language, fw) ==
    NonEmptyPhases(
        IF language = "python"
        THEN PythonFramework(PythonInstall(repo), repo, fw)
        ELSE IF language = "javascript"
        THEN JavaScriptCommands(repo, pd, fw)
        ELSE OtherCommands(repo, language),
        Phases)

\* the dependency installation of the Python Dockerfiles: uv (lines 534-540)
\* or pip (lines 573-574)
PythonInstallLines(use_uv) ==
    IF use_uv
    THEN << <<"RUN", "pip", "install", "uv">>,
            <<"COPY", "pyproject.toml", "uv.lock*", "requirements.txt*", "./">>,
            <<"RUN", "if uv.lock: uv sync --frozen; elif pyproject.toml: uv pip install .; elif requirements.txt: uv pip install -r requirements.txt">> >>
    ELSE << <<"COPY", "requirements.txt", ".">>,
            <<"RUN", "pip", "install", "--no-cache-dir", "-r",
              "requirements.txt">> >>

\* a Python Dockerfile of generate_dockerfile: base image, installation,
\* the other RUN lines, the port, and the start command, run through uv or not
PythonDockerfile(use_uv, runs, p, health, start) ==
    << <<"FROM", "python:3.9-slim">> >>
    \o PythonInstallLines(use_uv)
    \o [i \in 1..Len(runs) |->
           <<"RUN">> \o (IF use_uv THEN <<"uv", "run">> ELSE <<>>) \o runs[i]]
    \o << <<"USER", "appuser">>, <<"EXPOSE", p>> >>
    \o (IF health
        THEN << <<"HEALTHCHECK",
                  "curl -f http://localhost:" \o p \o "/health || exit 1">> >>
        ELSE <<>>)
    \o << <<"CMD">> \o (IF use_uv THEN <<"uv", "run">> ELSE <<>>) \o start >>

\* Variant of FlaskDockerfile: the port of the flask template of
\* templates.py.
FlaskDockerfile_Port8080(use_uv) ==
    PythonDockerfile(use_uv, <<>>, "8080", TRUE, <<"python", "app.py">>)

\* lines 597-665: the two flask Dockerfiles
FlaskDockerfile(use_uv) ==
    PythonDockerfile(use_uv, <<>>, "5000", TRUE, <<"python", "app.py">>)

\* RepositoryAnalyzer.generate_dockerfile; use_uv is self._use_uv when the
\* attribute exists, False otherwise (line 518)
generate_dockerfile(language, fw, use_uv) ==
    IF language = "python"
    THEN IF fw = "django"
         THEN PythonDockerfile(use_uv,
                  << <<"python", "manage.py", "collectstatic", "--noinput">> >>,
                  "8000", TRUE,
                  <<"python", "manage.py", "runserver", "0.0.0.0:8000">>)
         ELSE IF fw = "flask"
         THEN FlaskDockerfile(use_uv)
         ELSE IF fw = "fastapi"
         THEN PythonDockerfile(use_uv, <<>>, "8000", TRUE,
                  <<"uvicorn", "main:app", "--host", "0.0.0.0", "--port",
                    "8000">>)
         ELSE PythonDockerfile(use_uv, <<>>, "8000", FALSE,
                               <<"python", "main.py">>)
    ELSE IF language = "javascript"
    THEN IF fw = "react"
         THEN << <<"FROM", "node:18-alpine", "AS", "build">>,
                 <<"COPY", "package*.json", "./">>,
                 <<"RUN", "npm", "ci">>,
                 <<"RUN", "npm", "run", "build">>,
                 <<"FROM", "nginx:alpine">>,
                 <<"COPY", "--from=build", "/app/build",
                   "/usr/share/nginx/html">>,
                 <<"EXPOSE", "80">>,
                 <<"CMD", "nginx", "-g", "daemon off;">> >>
         ELSE IF fw = "express"
         THEN << <<"FROM", "node:18-alpine">>,
                 <<"COPY", "package*.json", "./">>,
                 <<"RUN", "npm", "ci", "--only=production">>,
                 <<"USER", "appuser">>, <<"EXPOSE", "3000">>,
                 <<"HEALTHCHECK",
                   "curl -f http://localhost:3000/health || exit 1">>,
                 <<"CMD", "node", "server.js">> >>
         ELSE << <<"FROM", "node:18-alpine">>,
                 <<"COPY", "package*.json", "./">>,
                 <<"RUN", "npm", "ci", "--only=production">>,
                 <<"USER", "appuser">>, <<"EXPOSE", "3000">>,
                 <<"CMD", "node", "index.js">> >>
    ELSE << <<"FROM", "alpine:latest">>, <<"EXPOSE", "8080">>,
            <<"CMD", "echo", "Please configure your application">> >>

\* RepositoryAnalyzer.generate_docker_compose: the django file has the app
\* and a postgres db with a named volume, every other stack the single app
generate_docker_compose(language, fw) ==
    IF language = "python" /\ fw = "django"
    THEN << <<"service", "app", "build: .", "8000:8000">>,
            <<"service", "db", "image: postgres:13">>,
            <<"volume", "postgres_data">> >>
    ELSE << <<"service", "app", "build: .", "8080:8080">> >>

------------------------------------------------------------------------------
(* repocontainerizer.py: auto_setup_repo and containerize_repo *)

MaxRepoFiles == 3

\* the paths detect_build_commands and the uv check test for existence
RepoFileNames ==
    {"uv.lock", "pyproject.toml", "requirements.txt", "setup.py", "main.py",
     "package.json", "pom.xml", "go.mod", "Cargo.toml", "Makefile"}

\* keys of language_files in detect_language, and its "unknown"
StandaloneLanguages ==
    {"python", "javascript", "java", "go", "php", "ruby", "rust", "cpp",
     "unknown"}

\* what detect_framework can return for some language
StandaloneFrameworks ==
    {"django", "flask", "fastapi", "react", "next", "express", "generic"}

\* what json.load(package.json) can give, by the shape of its scripts
PackageDataValues ==
    {JInvalid, JArray}
    \cup {JObject(Absent, Absent, scripts) :
             scripts \in {Absent, JNull, JDict(<<"build">>),
                          JDict(<<"start", "test">>),
                          JDict(<<"start", "dev", "build", "test">>)}}

\* the analysis pipeline of repo_containerizer.py is not running
AnalysisIdle ==
    /\ files = <<>>
    /\ file_contents = <<>>
    /\ pc = "idle"
    /\ language_counts = <<>>
    /\ primary_language = ""
    /\ framework = ""
    /\ package_manager = ""
    /\ databases = <<>>
    /\ port = 0
    /\ env_vars = <<>>
    /\ build_tools = <<>>
    /\ dependencies = <<>>
    /\ dockerfile_template = <<>>
    /\ compose_template = <<>>
    /\ commands = NoCommands
    /\ health_check = ""
    /\ response = NoResponse
    /\ result = NoResult

\* a checkout with some of the files, language and framework detected
\* (lines 1132-1133 and 1524-1525)
InitStandalone ==
    /\ AnalysisIdle
    /\ repo_path \in {r \in SUBSET RepoFileNames : Cardinality(r) <= MaxRepoFiles}
    /\ package_data \in IF "package.json" \in repo_path
                        THEN PackageDataValues ELSE {JInvalid}
    /\ \E language \in StandaloneLanguages, fw \in StandaloneFrameworks :
          cli = [NoCli EXCEPT !.pc = "analysed", !.language = language,
                              !.framework = fw]
    /\ ToolsIdle

\* lines 1137-1142 and 1529-1534
CheckUv ==
    /\ cli.pc = "analysed"
    /\ cli' = [cli EXCEPT
                  !.pc = "ready",
                  !.use_uv = \/ "uv.lock" \in repo_path
                             \/ /\ cli.language = "python"
                                /\ "pyproject.toml" \in repo_path
                                /\ "requirements.txt" \notin repo_path]
    /\ UNCHANGED <<repo_path, package_data>>
    /\ UNCHANGED <<analysis_vars, tool_vars>>

\* auto_setup_repo, line 1538
DetectBuildCommands ==
    /\ cli.pc = "ready"
    /\ cli' = [cli EXCEPT
                  !.pc = "setup",
                  !.commands = detect_build_commands(repo_path, package_data,
                                   cli.language, cli.framework)]
    /\ UNCHANGED <<repo_path, package_data>>
    /\ UNCHANGED <<analysis_vars, tool_vars>>

\* containerize_repo, lines 1158-1162: the Dockerfile is generated and written
GenerateDockerfile ==
    /\ cli.pc = "ready"
    /\ cli' = [cli EXCEPT
                  !.pc = "compose",
                  !.dockerfile_content =
                      generate_dockerfile(cli.language, cli.framework,
                                          cli.use_uv)]
    /\ output' = [output EXCEPT
                     !.dir = DictSet(@, "Dockerfile",
                                 generate_dockerfile(cli.language,
                                     cli.framework, cli.use_uv))]
    /\ UNCHANGED <<repo_path, package_data, config, agent>>
    /\ UNCHANGED analysis_vars

\* containerize_repo, lines 1164-1168
GenerateDockerCompose ==
    /\ cli.pc = "compose"
    /\ cli' = [cli EXCEPT
                  !.pc = "containerized",
                  !.compose_content =
                      generate_docker_compose(cli.language, cli.framework)]
    /\ output' = [output EXCEPT
                     !.dir = DictSet(@, "docker-compose.yml",
                                 generate_docker_compose(cli.language,
                                                         cli.framework))]
    /\ UNCHANGED <<repo_path, package_data, config, agent>>
    /\ UNCHANGED analysis_vars

NextStandalone ==
    \/ CheckUv
    \/ DetectBuildCommands
    \/ GenerateDockerfile
    \/ GenerateDockerCompose

SpecStandalone == InitStandalone /\ [][NextStandalone]_vars

------------------------------------------------------------------------------
(* Dependency extraction of both tools on the same manifests *)

\* the text of a readable file of the checkout; a file that cannot be read
\* has no text
HasText(contents, name) == name \in DictKeys(contents)

\* RepositoryAnalyzer.detect_dependencies: the requirement names, then the
\* keys of dependencies and devDependencies; any exception of a block is
\* swallowed and what was appended before it stays
detect_dependencies(repo, contents) ==
    LET python ==
            IF "requirements.txt" \in repo /\ HasText(contents, "requirements.txt")
            THEN RequirementNames(DictGet(contents, "requirements.txt", <<>>))
            ELSE <<>>
        j == DictGet(contents, "package.json", [json |-> JInvalid]).json
        deps == IF j.dependencies.kind = "absent" THEN JDict(<<>>)
                ELSE j.dependencies
        dev == IF j.devDependencies.kind = "absent" THEN JDict(<<>>)
               ELSE j.devDependencies
        node ==
            IF "package.json" \notin repo \/ ~HasText(contents, "package.json")
               \/ j.kind # "object" \/ deps.kind # "dict"
            THEN <<>>
            ELSE IF dev.kind # "dict" THEN deps.keys
            ELSE deps.keys \o dev.keys
    IN  python \o node

DependencyNames == {"react", "flask"}

\* package.json texts by their dependencies and devDependencies
DependencyPackageJsons ==
    LET shapes == {Absent} \cup {JDict(k) : k \in SeqsNoDup(DependencyNames, 2)}
        make(j) == Content(j, JsonWords(j), <<>>, NoPorts, {})
    IN  {make(JInvalid)}
        \cup {make(JObject(d, dev, Absent)) : d \in shapes, dev \in shapes}

DependencyRequirements ==
    {Content(JInvalid, LineWords(lines), lines, NoPorts, {}) :
        lines \in SeqsUpTo({ReqLine("flask"), ReqLine("react"), CommentLine},
                           MaxLines)}

\* lines 182-193: the manifests of the list that can be read, with their text
RECURSIVE ReadManifests(_)
ReadManifests(fs) ==
    IF fs = <<>> THEN {<<>>}
    ELSE LET rest == ReadManifests(Tail(fs))
             choices == IF Head(fs) = "package.json"
                        THEN DependencyPackageJsons
                        ELSE DependencyRequirements
         IN  rest \cup {<< <<Head(fs), c>> >> \o r : c \in choices, r \in rest}

\* a repository of manifests only: the pipeline starts its analysis, and
\* the standalone tool has found no source file (language unknown,
\* framework generic) and is about to read the dependencies (line 1134)
InitDependencies ==
    /\ files \in SeqsNoDup({"package.json", "requirements.txt"}, 2)
    /\ file_contents \in ReadManifests(files)
    /\ pc = "classify"
    /\ language_counts = <<>>
    /\ primary_language = ""
    /\ framework = ""
    /\ package_manager = ""
    /\ databases = <<>>
    /\ port = 0
    /\ env_vars = <<>>
    /\ build_tools = <<>>
    /\ dependencies = <<>>
    /\ dockerfile_template = <<>>
    /\ compose_template = <<>>
    /\ commands = NoCommands
    /\ health_check = ""
    /\ response = NoResponse
    /\ result = NoResult
    /\ repo_path = Range(files)
    /\ package_data = JInvalid
    /\ cli = [NoCli EXCEPT !.pc = "dependencies", !.language = "unknown",
                           !.framework = "generic"]
    /\ ToolsIdle

\* containerize_repo line 1134, auto_setup_repo line 1526
DetectDependencies ==
    /\ cli.pc = "dependencies"
    /\ cli' = [cli EXCEPT
                  !.pc = "analysed",
                  !.dependencies = detect_dependencies(repo_path, file_contents)]
    /\ UNCHANGED <<repo_path, package_data>>
    /\ UNCHANGED <<analysis_vars, tool_vars>>

NextDependencies ==
    \/ Classify
    \/ DetectStack
    \/ ExtractDependencies
    \/ DetectDependencies

SpecDependencies == InitDependencies /\ [][NextDependencies]_vars

------------------------------------------------------------------------------
(* Artifact and command generation of both tools for a detected stack *)

\* a language as detect_language_from_files names it (utils.py) and as
\* detect_language of the standalone tool names it
StackLanguages ==
    { <<"Python", "python">>, <<"JavaScript", "javascript">>,
      <<"TypeScript", "javascript">>, <<"Java", "java">>, <<"Go", "go">>,
      <<"Rust", "rust">>, <<"JSON", "unknown">>, <<"unknown", "unknown">> }

StackFrameworks ==
    {"django", "flask", "fastapi", "express", "next", "react", "spring",
     "gin", "vue", "generic"}

StackPackageManagers == {"pip", "npm", "yarn", "maven", "unknown"}

\* results of detect_database_requirements
StackDatabases ==
    {<<>>, <<"postgresql">>, <<"redis">>, <<"mongodb">>,
     <<"redis", "postgresql">>, <<"mysql", "redis">>}

\* results of detect_port_from_files: the default, and ports found in files
StackPorts == {8080, 3000, 5000}

\* the pre-analysis (lines 222-231) is done for some stack, and the
\* standalone tool has detected the same stack
InitArtifacts ==
    /\ files = <<>>
    /\ file_contents = <<>>
    /\ pc = "templates"
    /\ language_counts = <<>>
    /\ framework \in StackFrameworks
    /\ package_manager \in StackPackageManagers
    /\ databases \in StackDatabases
    /\ port \in StackPorts
    /\ env_vars = <<>>
    /\ build_tools = <<>>
    /\ dependencies = <<>>
    /\ dockerfile_template = <<>>
    /\ compose_template = <<>>
    /\ commands = NoCommands
    /\ health_check = ""
    /\ response = NoResponse
    /\ result = NoResult
    /\ repo_path = {}
    /\ package_data = JInvalid
    /\ \E stack \in StackLanguages, use_uv \in BOOLEAN :
          /\ primary_language = stack[1]
          /\ cli = [NoCli EXCEPT !.pc = "ready", !.language = stack[2],
                                 !.framework = framework, !.use_uv = use_uv]
    /\ ToolsIdle

NextArtifacts ==
    \/ SelectTemplates
    \/ GenerateCommands
    \/ GenerateDockerfile
    \/ GenerateDockerCompose

SpecArtifacts == InitArtifacts /\ [][NextArtifacts]_vars

------------------------------------------------------------------------------
(* Port detection: C11 to C13 *)

\* every number a port pattern matches somewhere in the contents
PortMatches(contents) ==
    UNION {Range(findall(p, contents[i][2].ports)) :
              p \in 1..Len(port_patterns), i \in 1..Len(contents)}

InRange(n) == 1000 <= n /\ n <= 65535

AppListen3000 ==
    Content(JInvalid, {}, <<>>, <<PortSnippet("app.listen(", 3000)>>, {})

\* C11: when some port-pattern match anywhere in the contents lies in
\* 1000..65535 the detected port is an in-range matched value, so that an
\* earlier out-of-range match such as 80 does not hide a later in-range one;
\* and a content with app.listen(3000 as its only match gives 3000.
C11_InRangeMatchIsFound ==
    Analysed =>
        /\ (\E n \in PortMatches(file_contents) : InRange(n))
              => (port \in PortMatches(file_contents) /\ InRange(port))
        /\ file_contents = << <<"index.js", AppListen3000>> >> => port = 3000

\* C12: when no port pattern matches any content, the detected port is the
\* entry of the detected framework in the default table (django 8000, flask
\* 5000, express 3000, ...), and 8080 only for a framework without entry.
C12_FrameworkDefaultPort ==
    (Analysed /\ PortMatches(file_contents) = {})
    => port = DictGet(default_ports, framework, 8080)

\* C13: in every profile the pipeline returns, with the refinement accepted,
\* rejected or absent, port is an integer in 1..65535.
C13_ReturnedPortIsValid ==
    (pc = "done" /\ result.exc = "none") => result.value.port \in 1..65535

------------------------------------------------------------------------------
(* Command synthesis: C14 to C16 *)

BuildCommandsDetected == cli.pc = "setup"

\* C14: in the commands map of detect_build_commands no phase's list has the
\* same command twice in a row, whatever the language, the framework, the
\* manifest files present and the package.json scripts.
C14_NoConsecutiveDuplicateCommand ==
    BuildCommandsDetected =>
        \A k \in 1..Len(cli.commands) :
            LET list == cli.commands[k][2]
            IN  \A i \in 1..(Len(list) - 1) : list[i] # list[i + 1]

CommandsGenerated == pc = "refine"

\* C15: generate_run_commands gives, for every language, framework and
\* package manager, the framework's command in each phase the framework
\* entry defines and the language default in each other phase.
C15_OverrideReplacesOnlyDefinedPhases ==
    CommandsGenerated =>
        LET defaults == DictGet(language_commands(package_manager),
                                Lower(primary_language), NoCommandAvailable)
            entry == DictGet(framework_overrides, framework, <<>>)
        IN  \A phase \in {"install", "build", "start", "test"} :
                commands[phase] = IF phase \in DictKeys(entry)
                                  THEN DictGet(entry, phase, "")
                                  ELSE defaults[phase]

C15_Witness ==
    /\ CommandsGenerated
    /\ primary_language = "Python"
    /\ framework = "django"
    /\ commands.start = "python manage.py runserver 0.0.0.0:8000"
    /\ commands.install = "pip install -r requirements.txt"

\* the program a command runs
Program(cmd) == cmd[1]

\* C16: for a Python repository the install commands are uv commands exactly
\* when uv.lock is present or pyproject.toml is present without
\* requirements.txt; in every other case they are pip commands.
C16_UvExactlyWhenLockOrPyproject ==
    (BuildCommandsDetected /\ cli.language = "python") =>
        LET install == DictGet(cli.commands, "install", <<>>)
            uv_case == \/ "uv.lock" \in repo_path
                       \/ /\ "pyproject.toml" \in repo_path
                          /\ "requirements.txt" \notin repo_path
        IN  /\ uv_case => /\ install # <<>>
                          /\ \A i \in 1..Len(install) :
                                Program(install[i]) = "uv"
            /\ ~uv_case => \A i \in 1..Len(install) :
                               Program(install[i]) = "pip"

------------------------------------------------------------------------------
(* Artifact selection: C17 to C19 *)

TemplatesSelected == pc \in {"commands", "refine"}

\* the template of DOCKERFILE_TEMPLATES for a language and a framework name,
\* the empty list when there is none
TemplateFor(language, name) ==
    DictGet(DictGet(DOCKERFILE_TEMPLATES, Lower(language), <<>>), name, <<>>)

\* the universal minimal Dockerfile: alpine base, placeholder CMD
MinimalDockerfile ==
    << <<"FROM", "alpine:latest">>, <<"EXPOSE", "8080">>,
       <<"CMD", "echo", "Please configure the application start command">> >>

NodeDockerfile ==
    << <<"FROM", "node:18-alpine">>, <<"EXPOSE", "8080">>,
       <<"CMD", "node", "index.js">> >>

\* C17 as stated: the Dockerfile of the deterministic profile is the
\* (language, framework) template when one exists, else the language's
\* generic template, else the universal minimal Dockerfile; it is never
\* empty.
C17_ThreeLevelWaterfall ==
    TemplatesSelected =>
        LET exact == TemplateFor(primary_language, framework)
            generic == TemplateFor(primary_language, "generic")
            content == FallbackAnalysis.dockerfile_content
        IN  /\ content = IF exact # <<>> THEN exact
                         ELSE IF generic # <<>> THEN generic
                         ELSE MinimalDockerfile
            /\ content # <<>>

\* C17 amended: the third level depends on the language; a JavaScript
\* stack without template gets the Node Dockerfile (node:18-alpine, CMD node
\* index.js), every other language without template the minimal one.
C17_WaterfallWithLanguageFallback ==
    TemplatesSelected =>
        LET exact == TemplateFor(primary_language, framework)
            generic == TemplateFor(primary_language, "generic")
            content == FallbackAnalysis.dockerfile_content
        IN  /\ content = IF exact # <<>> THEN exact
                         ELSE IF generic # <<>> THEN generic
                         ELSE IF primary_language = "JavaScript"
                         THEN NodeDockerfile
                         ELSE MinimalDockerfile
            /\ content # <<>>

C17_Witness ==
    /\ TemplatesSelected
    /\ primary_language = "JavaScript"
    /\ framework = "vue"
    /\ dockerfile_template = <<>>
    /\ FallbackAnalysis.dockerfile_content = NodeDockerfile

\* the Dockerfile of the deterministic profile, and that of the standalone
\* tool, rendered for a stack
PipelineRendered(language, fw) ==
    TemplatesSelected /\ primary_language = language /\ framework = fw

StandaloneRendered(language, fw) ==
    /\ cli.pc \in {"compose", "containerized"}
    /\ cli.language = language
    /\ cli.framework = fw

Exposes(dockerfile, p) == <<"EXPOSE", p>> \in Range(dockerfile)

\* the last instruction is a CMD that starts the entrypoint
StartsEntrypoint(dockerfile, entrypoint) ==
    /\ dockerfile # <<>>
    /\ dockerfile[Len(dockerfile)][1] = "CMD"
    /\ entrypoint \in Range(dockerfile[Len(dockerfile)])

IsFrom(instruction) == instruction[1] = "FROM"

\* exactly two FROM stages: a named node build stage, then an nginx stage
BuilderThenNginx(dockerfile) ==
    LET stages == SelectSeq(dockerfile, IsFrom)
    IN  /\ Len(stages) = 2
        /\ stages[1][2] = "node:18-alpine"
        /\ Len(stages[1]) = 4
        /\ stages[1][4] \in {"build", "builder"}
        /\ stages[2][2] = "nginx:alpine"

ReactDockerfilesHaveTwoStages ==
    /\ PipelineRendered("JavaScript", "react")
          => BuilderThenNginx(FallbackAnalysis.dockerfile_content)
    /\ StandaloneRendered("javascript", "react")
          => BuilderThenNginx(cli.dockerfile_content)

HasService(compose, name) ==
    \E i \in 1..Len(compose) :
        compose[i][1] = "service" /\ compose[i][2] = name

HasVolume(compose, name) == <<"volume", name>> \in Range(compose)

PostgresAttached(compose) ==
    /\ HasService(compose, "app")
    /\ HasService(compose, "db")
    /\ HasVolume(compose, "postgres_data")

RedisAttached(compose) ==
    /\ HasService(compose, "app")
    /\ HasService(compose, "redis")
    /\ ~HasService(compose, "db")

SingleService(compose) ==
    /\ HasService(compose, "app")
    /\ ~HasService(compose, "db")
    /\ ~HasService(compose, "redis")

\* the compose file that the detected services call for
ByServices(services, compose) ==
    IF "postgresql" \in Range(services) THEN PostgresAttached(compose)
    ELSE IF "redis" \in Range(services) THEN RedisAttached(compose)
    ELSE SingleService(compose)

\* C19 as stated: whatever the language and the framework, the compose file
\* is the Postgres-attached one when postgresql is detected, else the
\* Redis-attached one when redis is detected, else the single-service one.
C19_ComposeByServicesOnly ==
    /\ TemplatesSelected => ByServices(databases, compose_template)
    /\ cli.pc = "containerized" => ByServices(databases, cli.compose_content)

\* C19 amended: the analysis pipeline selects by the detected services as
\* stated; generate_docker_compose of the standalone tool selects by the
\* stack, the db-attached file for (python, django) and the single-service
\* file for every other stack.
C19_ComposeByServicesInPipelineOnly ==
    /\ TemplatesSelected => ByServices(databases, compose_template)
    /\ cli.pc = "containerized"
          => IF cli.language = "python" /\ cli.framework = "django"
             THEN PostgresAttached(cli.compose_content)
             ELSE SingleService(cli.compose_content)

C19_Witness ==
    /\ TemplatesSelected
    /\ databases = <<"redis", "postgresql">>
    /\ PostgresAttached(compose_template)
    /\ cli.pc = "containerized"
    /\ cli.framework = "flask"
    /\ SingleService(cli.compose_content)

------------------------------------------------------------------------------
(* Service detection: C20 *)

\* the detected service that is highest in postgresql > redis > mongodb
HighestPriority(detected) ==
    IF "postgresql" \in detected THEN "postgresql"
    ELSE IF "redis" \in detected THEN "redis"
    ELSE "mongodb"

\* C20: the service reported as primary (the profile's database, the first
\* of the detected list) is the highest detected one in the order
\* postgresql > redis > mongodb > others, whatever the order in which the
\* contents are scanned; the remaining ones are the external services.
C20_PrimaryServiceByPriority ==
    (Analysed /\ Range(databases) \cap {"postgresql", "redis", "mongodb"} # {})
    => /\ FallbackAnalysis.database = HighestPriority(Range(databases))
       /\ Range(FallbackAnalysis.external_services)
              = Range(databases) \ {HighestPriority(Range(databases))}
       /\ \A order \in ListOfSet(Range(file_contents)) :
              detect_database_requirements(order)[1]
                  = FallbackAnalysis.database

------------------------------------------------------------------------------
(* Writing the artifacts *)

\* generate_config_file: the text, by the serialisation that produced it
generate_config_file(analysis, format) ==
    << IF format = "yaml" THEN "yaml" ELSE "json" >>

\* lines 413-418: the header, then one line per item of the dict
EnvExample(environment_vars) ==
    <<"# Environment variables for containerization">>
    \o [i \in 1..Len(environment_vars) |->
           environment_vars[i][1] \o "=  # " \o environment_vars[i][2]]

generate_readme(analysis) == <<"# Containerization Guide">>

\* open(path, 'w') and write, one file after the other
RECURSIVE WriteAll(_, _)
WriteAll(dir, writes) ==
    IF writes = <<>> THEN dir
    ELSE WriteAll(DictSet(dir, writes[1][1], writes[1][2]), Tail(writes))

\* create_output_files: the directory after the call and the returned list
create_output_files(analysis, dir, config_format) ==
    LET config_ext == IF config_format = "yaml" THEN "yml" ELSE "json"
        config_path == "container-config." \o config_ext
    IN  [dir |-> WriteAll(dir,
                    << <<"Dockerfile", analysis.dockerfile_content>>,
                       <<"docker-compose.yml", analysis.docker_compose_content>>,
                       <<config_path, generate_config_file(analysis, config_format)>>,
                       <<".env.example", EnvExample(analysis.environment_vars)>>,
                       <<"CONTAINERIZATION_README.md", generate_readme(analysis)>> >>),
         generated_files |->
             <<"Dockerfile", "docker-compose.yml", config_path, ".env.example",
               "CONTAINERIZATION_README.md">>]

\* the containerize command, line 678: --format is yaml or json
CreateOutputFiles ==
    /\ pc = "done"
    /\ result.exc = "none"
    /\ \E config_format \in {"yaml", "json"} :
          output' = create_output_files(result.value, output.dir, config_format)
    /\ pc' = "written"
    /\ UNCHANGED <<files, file_contents, language_counts, primary_language,
                   framework, package_manager, databases, port, env_vars,
                   build_tools, dependencies, dockerfile_template,
                   compose_template, commands, health_check, response, result>>
    /\ UNCHANGED <<standalone_vars, config, agent>>

\* containerize_repo, lines 1205-1218: the file that is written, and the
\* name the rest of the run uses for it
SaveConfiguration(dir, format_type, yaml_available) ==
    LET written == "container-config." \o format_type
        as_json == format_type = "json" \/ ~yaml_available
        config_filename ==
            IF as_json /\ format_type = "yaml" /\ ~yaml_available
            THEN "container-config.json"
            ELSE written
    IN  [dir |-> DictSet(dir, written,
                         << IF as_json THEN "json" ELSE "yaml" >>),
         config_filename |-> config_filename]

\* containerize_repo, lines 1205-1300: configuration file, README and the
\* Generated Files list
WriteConfigurationAndReadme ==
    /\ cli.pc = "containerized"
    /\ LET saved == SaveConfiguration(output.dir, cli.format_type,
                                      cli.YAML_AVAILABLE)
       IN  output' =
               [dir |-> DictSet(saved.dir, "README.md",
                                <<"See " \o saved.config_filename>>),
                generated_files |->
                    <<"Dockerfile", "docker-compose.yml",
                      saved.config_filename, "README.md">>]
    /\ cli' = [cli EXCEPT !.pc = "reported"]
    /\ UNCHANGED <<repo_path, package_data, config, agent>>
    /\ UNCHANGED analysis_vars

MaxEnvVars == 2

\* contents of one source file, by the environment variables it mentions
EnvFileContents ==
    {<< <<"app.py", Content(JInvalid, {}, <<>>, NoPorts, envs)>> >> :
        envs \in {e \in SUBSET EnvNames : Cardinality(e) <= MaxEnvVars}}

OutputStackFrameworks == {"flask", "generic"}

\* the analysis has returned the profile of the pre-analysis of some stack
\* (the refinement call raised), and the standalone tool is not running
InitPipelineOutput ==
    /\ files = <<>>
    /\ file_contents = <<>>
    /\ pc = "done"
    /\ language_counts = <<>>
    /\ \E stack \in StackLanguages : primary_language = stack[1]
    /\ framework \in OutputStackFrameworks
    /\ package_manager = "unknown"
    /\ databases = <<>>
    /\ port = 8080
    /\ \E contents \in EnvFileContents :
          env_vars \in detect_environment_variables(contents)
    /\ build_tools = <<>>
    /\ dependencies = <<>>
    /\ dockerfile_template =
          LET t == get_dockerfile_template(primary_language, framework)
          IN  IF t = <<>>
              THEN get_dockerfile_template(primary_language, "generic")
              ELSE t
    /\ compose_template = SelectComposeTemplate(databases)
    /\ commands = generate_run_commands(primary_language, framework,
                                        package_manager)
    /\ health_check = generate_health_check_command(primary_language,
                                                    framework, port)
    /\ response = [raises |-> TRUE, text |-> <<>>]
    /\ result = Returned(FallbackAnalysis)
    /\ StandaloneIdle
    /\ ToolsIdle

\* the standalone tool has analysed a checkout and created the output
\* directory (line 1155); the pipeline is not running
InitStandaloneOutput ==
    /\ AnalysisIdle
    /\ repo_path = {}
    /\ package_data = JInvalid
    /\ \E language \in StandaloneLanguages, fw \in StandaloneFrameworks,
          format_type \in {"yaml", "json"}, yaml_available \in BOOLEAN :
          cli = [NoCli EXCEPT !.pc = "ready", !.language = language,
                              !.framework = fw,
                              !.format_type = format_type,
                              !.YAML_AVAILABLE = yaml_available]
    /\ ToolsIdle

InitOutput == InitPipelineOutput \/ InitStandaloneOutput

NextOutput ==
    \/ CreateOutputFiles
    \/ GenerateDockerfile
    \/ GenerateDockerCompose
    \/ WriteConfigurationAndReadme

SpecOutput == InitOutput /\ [][NextOutput]_vars

------------------------------------------------------------------------------
(* Config of the standalone tool *)

\* Values are written as Python prints them: False is "False", None is
\* "None"; the timestamp of last_updated is "now".
default_config ==
    << <<"api_key", "">>, <<"default_output_dir", "./output">>,
       <<"default_format", "yaml">>, <<"validate_by_default", "False">>,
       <<"theme", "auto">>, <<"last_updated", "now">> >>

\* Config.load_config: the object of config.json when the file exists and
\* parses, the default configuration otherwise
load_config(config_file) ==
    IF config_file.kind = "json" THEN config_file.data ELSE default_config

\* Config.save_config: json.dump into the file; an exception is only printed
save_config(config_file, writable, data) ==
    IF writable THEN [kind |-> "json", data |-> data] ELSE config_file

\* Config.get
Config_get(data, key, default) == DictGet(data, key, default)

\* self.data[key] = value of Config.set
Config_set_DropsOtherKeys(data, key, value) == << <<key, value>> >>

Config_set(data, key, value) == DictSet(data, key, value)

MaxCalls == 3

ConfigKeys == {"default_format", "test_key"}
ConfigValues == {"json", "test_value"}
GetDefaults == {"None", "default"}

\* config.json before the program starts
ConfigFiles ==
    {[kind |-> "missing", data |-> <<>>], [kind |-> "corrupt", data |-> <<>>],
     [kind |-> "json", data |-> default_config],
     [kind |-> "json", data |-> << <<"default_format", "json">> >>]}

InitConfig ==
    /\ AnalysisIdle
    /\ StandaloneIdle
    /\ output = NoOutput
    /\ agent = NoAgent
    /\ \E f \in ConfigFiles, w \in BOOLEAN :
          config = [NoConfig EXCEPT !.config_file = f, !.writable = w]

\* Config.__init__
LoadConfig ==
    /\ config.pc = "idle"
    /\ config' = [config EXCEPT !.pc = "loaded",
                                !.data = load_config(config.config_file),
                                !.loaded = load_config(config.config_file)]
    /\ UNCHANGED <<analysis_vars, standalone_vars, output, agent>>

\* Config.set
Set ==
    /\ config.pc = "loaded"
    /\ Len(config.calls) < MaxCalls
    /\ \E key \in ConfigKeys, value \in ConfigValues :
          LET data == Config_set(config.data, key, value)
          IN  config' = [config EXCEPT
                  !.data = data,
                  !.config_file = save_config(config.config_file,
                                              config.writable, data),
                  !.calls = Append(@, <<"set", key, value>>)]
    /\ UNCHANGED <<analysis_vars, standalone_vars, output, agent>>

\* Config.get
Get ==
    /\ config.pc = "loaded"
    /\ Len(config.calls) < MaxCalls
    /\ \E key \in ConfigKeys, default \in GetDefaults :
          config' = [config EXCEPT
              !.returned = Config_get(config.data, key, default),
              !.calls = Append(@, <<"get", key, default>>)]
    /\ UNCHANGED <<analysis_vars, standalone_vars, output, agent>>

\* manage_config(['reset']), lines 1395-1397
Reset ==
    /\ config.pc = "loaded"
    /\ Len(config.calls) < MaxCalls
    /\ config' = [config EXCEPT
                     !.data = load_config(config.config_file),
                     !.calls = Append(@, <<"reset", "", "">>)]
    /\ UNCHANGED <<analysis_vars, standalone_vars, output, agent>>

NextConfig ==
    \/ LoadConfig
    \/ Set
    \/ Get
    \/ Reset

SpecConfig == InitConfig /\ [][NextConfig]_vars

------------------------------------------------------------------------------
(* IntelligentAutoRepairAgent.run_cmd_with_fixes *)

MaxFixAttempts == 3

\* what one subprocess.run of the command can do: return with an exit
\* code, raise TimeoutExpired after the timeout, or raise another exception
RunOutcomes == {"exit 0", "exit 1", "exit 2", "TimeoutExpired", "OSError"}

\* what apply_intelligent_fixes can do: return True, return False, or raise
FixOutcomes == {"applied", "none", "OSError"}

\* the condition of the while loop, line 439
LoopContinues_Inclusive(attempt, max_fix_attempts) == attempt <= max_fix_attempts

LoopContinues(attempt, max_fix_attempts) == attempt < max_fix_attempts

\* line 468
MaxAttemptsMessage(max_fix_attempts) ==
    "Max fix attempts (" \o ToString(max_fix_attempts) \o ") exceeded"

\* the method has been called with some max_fix_attempts (line 437)
InitAgent ==
    /\ AnalysisIdle
    /\ StandaloneIdle
    /\ output = NoOutput
    /\ config = NoConfig
    /\ \E n \in 0..MaxFixAttempts :
          agent = [NoAgent EXCEPT !.pc = "loop", !.max_fix_attempts = n]

\* lines 439-451 and 463-466: one run of the command
RunCommand ==
    /\ agent.pc = "loop"
    /\ LoopContinues(agent.attempt, agent.max_fix_attempts)
    /\ \E run \in RunOutcomes :
          agent' =
              [agent EXCEPT
                  !.runs = Append(@, run),
                  !.pc = IF run \in {"exit 1", "exit 2"} THEN "failed"
                         ELSE "returned",
                  !.returned =
                      IF run = "exit 0"
                      THEN [success |-> TRUE, stderr |-> "stderr"]
                      ELSE IF run = "TimeoutExpired"
                      THEN [success |-> FALSE, stderr |-> "Command timed out"]
                      ELSE IF run = "OSError"
                      THEN [success |-> FALSE, stderr |-> "OSError"]
                      ELSE @]
    /\ UNCHANGED <<analysis_vars, standalone_vars, output, config>>

\* lines 452-466: the fixes after a failed run
ApplyIntelligentFixes ==
    /\ agent.pc = "failed"
    /\ \E fix \in FixOutcomes :
          agent' =
              [agent EXCEPT
                  !.fixes = Append(@, fix),
                  !.attempt = IF fix = "applied" THEN @ + 1 ELSE @,
                  !.pc = IF fix = "applied" THEN "loop" ELSE "returned",
                  !.returned =
                      IF fix = "none"
                      THEN [success |-> FALSE, stderr |-> "stderr"]
                      ELSE IF fix = "OSError"
                      THEN [success |-> FALSE, stderr |-> "OSError"]
                      ELSE @]
    /\ UNCHANGED <<analysis_vars, standalone_vars, output, config>>

\* line 468: the loop has ended
GiveUp ==
    /\ agent.pc = "loop"
    /\ ~LoopContinues(agent.attempt, agent.max_fix_attempts)
    /\ agent' = [agent EXCEPT
                    !.pc = "returned",
                    !.returned =
                        [success |-> FALSE,
                         stderr |-> MaxAttemptsMessage(agent.max_fix_attempts)]]
    /\ UNCHANGED <<analysis_vars, standalone_vars, output, config>>

NextAgent ==
    \/ RunCommand
    \/ ApplyIntelligentFixes
    \/ GiveUp

SpecAgent == InitAgent /\ [][NextAgent]_vars

\* subprocess.run returns or raises within its timeout and the fixes are
\* finite loops over files, so a call that can take a step takes it
FairSpecAgent == SpecAgent /\ WF_vars(NextAgent)

------------------------------------------------------------------------------
(* Dependencies: C21 *)

NoDuplicates(list) == \A i, j \in 1..Len(list) : list[i] = list[j] => i = j

DependenciesExtracted == pc \notin {"classify", "detect", "extract", "raised"}

\* C21: the detected dependencies hold no name twice, also when a name is
\* several times in one manifest, in two manifests, or in both dependencies
\* and devDependencies.
C21_DependenciesHaveNoDuplicates ==
    /\ DependenciesExtracted => NoDuplicates(dependencies)
    /\ cli.pc = "analysed" => NoDuplicates(cli.dependencies)

------------------------------------------------------------------------------
(* The environment file: C22 *)

\* the variable names of the model in ascending order
EnvKeyOrder == <<"DATABASE_URL", "DB_HOST", "MY_VAR", "PORT", "SECRET_KEY">>

SortedEnvLines(environment_vars) ==
    LET keys == SelectSeq(EnvKeyOrder,
                          LAMBDA k : k \in DictKeys(environment_vars))
    IN  [i \in 1..Len(keys) |->
            keys[i] \o "=  # " \o DictGet(environment_vars, keys[i], "")]

OutputWritten == pc = "written"

\* C22: the lines of .env.example are the lines KEY=  # description of the
\* profile's environment variables, in ascending order of KEY.
C22_EnvExampleSortedByKey ==
    OutputWritten =>
        Tail(DictGet(output.dir, ".env.example", <<"">>))
            = SortedEnvLines(result.value.environment_vars)

------------------------------------------------------------------------------
(* The generated files: C24 *)

\* what a run reports as generated, once it has written its files
Reported == pc = "written" \/ cli.pc = "reported"

IsConfigFile(path) ==
    path \in {"container-config.yml", "container-config.yaml",
              "container-config.json"}

IsReadme(path) == path \in {"README.md", "CONTAINERIZATION_README.md"}

\* C24: every path of the list of generated files names a file of the output
\* directory, and the list has the Dockerfile, the compose file, the
\* container-config file and the README.
C24_GeneratedFilesExist ==
    Reported =>
        /\ Range(output.generated_files) \subseteq DictKeys(output.dir)
        /\ {"Dockerfile", "docker-compose.yml"}
               \subseteq Range(output.generated_files)
        /\ \E path \in Range(output.generated_files) : IsConfigFile(path)
        /\ \E path \in Range(output.generated_files) : IsReadme(path)

------------------------------------------------------------------------------
(* Repeatability of the deterministic analysis: C23 *)

\* C23: two runs of the deterministic analysis on the same file list and
\* contents give the same profile: wherever a run chooses a framework, a
\* build_tools list or a dependencies list, that value is the only one any
\* run on these inputs can choose.
C23_SameInputsSameProfile ==
    [][/\ pc = "detect" =>
            /\ \A fw \in detect_framework_from_files(files, file_contents) :
                   framework' = fw
            /\ \A tools \in detect_build_tools(files, file_contents) :
                   pc' = "extract" => build_tools' = tools.value
       /\ pc = "extract" =>
            \A deps \in extract_dependencies(file_contents) :
                pc' = "templates" => dependencies' = deps.value]_vars

------------------------------------------------------------------------------
(* Config.set and Config.get: C25 *)

OnlySetAndGet == \A i \in 1..Len(config.calls) : config.calls[i][1] # "reset"

\* the value of the most recent set(key, .) among the calls, else the value
\* of the loaded configuration, else the default d
RECURSIVE MostRecentlySet(_, _, _)
MostRecentlySet(calls, key, d) ==
    IF calls = <<>> THEN DictGet(config.loaded, key, d)
    ELSE LET last == calls[Len(calls)]
         IN  IF last[1] = "set" /\ last[2] = key THEN last[3]
             ELSE MostRecentlySet(SubSeq(calls, 1, Len(calls) - 1), key, d)

LastCall == config.calls[Len(config.calls)]

\* C25: after any sequence of set and get calls, get(k, d) gives the value
\* of the most recent set(k, .), or the loaded value, or d; so a set changes
\* the value of no other key.
C25_GetReturnsMostRecentSet ==
    (config.pc = "loaded" /\ OnlySetAndGet) =>
        /\ \A key \in ConfigKeys \cup DictKeys(default_config), d \in GetDefaults :
               Config_get(config.data, key, d)
                   = MostRecentlySet(config.calls, key, d)
        /\ (config.calls # <<>> /\ LastCall[1] = "get") =>
               config.returned
                   = MostRecentlySet(SubSeq(config.calls, 1,
                                            Len(config.calls) - 1),
                                     LastCall[2], LastCall[3])

\* a set of one key, a set of another key, then a get of the first
C25_Witness ==
    /\ Len(config.calls) = 3
    /\ config.calls[1][1] = "set"
    /\ config.calls[2][1] = "set"
    /\ config.calls[2][2] # config.calls[1][2]
    /\ config.calls[3][1] = "get"
    /\ config.calls[3][2] = config.calls[1][2]
    /\ config.returned = config.calls[1][3]

------------------------------------------------------------------------------
(* config reset: C27 *)

\* C27: after config reset the configuration is the default configuration,
\* whatever was set before.
C27_ResetRestoresDefaults ==
    (config.calls # <<>> /\ LastCall[1] = "reset") =>
        config.data = default_config

------------------------------------------------------------------------------
(* The order of the stages: C26 *)

\* the positions of a run in the stated order: language classification,
\* stack detection, dependency extraction, command synthesis, artifact
\* generation, refinement, return
StatedOrder ==
    <<"classify", "detect", "extract", "commands", "templates", "refine",
      "done">>

\* C26: every step of a run moves from one stage to the next one of the
\* stated order, so that every stage runs exactly once and the run ends
\* with the refinement decision.
C26_StagesOnceInStatedOrder ==
    [][\E i \in 1..(Len(StatedOrder) - 1) :
           pc = StatedOrder[i] /\ pc' = StatedOrder[i + 1]]_vars

------------------------------------------------------------------------------
(* One port in all artifacts: C28 *)

HealthPaths == {"", "/health", "/api/health", "/actuator/health"}

\* the health check commands of the templates for the URL of port p
ChecksPort(command, p) ==
    LET url == "http://localhost:" \o ToString(p)
    IN  \/ \E path \in HealthPaths :
              command \in {"curl -f " \o url \o path \o " || exit 1",
                           "wget --no-verbose --tries=1 --spider " \o url
                               \o path \o " || exit 1"}
        \/ command = "python -c \"import requests; requests.get('" \o url
                         \o "')\" || exit 1"

\* host:container mappings whose container port is p
MapsToContainerPort(mapping, p) ==
    \E host \in StackPorts : mapping = ToString(host) \o ":" \o ToString(p)

DockerfileUsesPort(dockerfile, p) ==
    \A i \in 1..Len(dockerfile) :
        /\ dockerfile[i][1] = "EXPOSE" => dockerfile[i][2] = ToString(p)
        /\ dockerfile[i][1] = "HEALTHCHECK" => ChecksPort(dockerfile[i][2], p)

ComposeUsesPort(compose, p) ==
    \A i \in 1..Len(compose) :
        (compose[i][1] = "service" /\ compose[i][2] = "app")
            => MapsToContainerPort(compose[i][4], p)

\* C28: the Dockerfile (EXPOSE and HEALTHCHECK URL) and the compose file of
\* a profile use the profile's port, the port of its health_check command.
C28_OnePortInAllArtifacts ==
    CommandsGenerated =>
        /\ DockerfileUsesPort(FallbackAnalysis.dockerfile_content, port)
        /\ ComposeUsesPort(FallbackAnalysis.docker_compose_content, port)
        /\ health_check
               = generate_health_check_command(primary_language, framework,
                                               port)

------------------------------------------------------------------------------
(* uv or pip in every artifact: C29 *)

InstallsWithUv(build_commands) ==
    LET install == DictGet(build_commands, "install", <<>>)
    IN  \E i \in 1..Len(install) : Program(install[i]) = "uv"

\* the Dockerfile installs uv before it installs the dependencies
IsUvVariant(dockerfile) == <<"RUN", "pip", "install", "uv">> \in Range(dockerfile)

\* C29: for a Python repository the install commands of detect_build_commands
\* use uv exactly when the Dockerfile generated for the same repository, with
\* the _use_uv flag of the run, is the uv variant.
C29_SameInstallerInCommandsAndDockerfile ==
    (BuildCommandsDetected /\ cli.language = "python") =>
        (InstallsWithUv(cli.commands)
            <=> IsUvVariant(generate_dockerfile(cli.language, cli.framework,
                                                cli.use_uv)))

------------------------------------------------------------------------------
(* run_cmd_with_fixes: C30 *)

AgentReturned == agent.pc = "returned"

FailedRun(run) == run \in {"exit 1", "exit 2"}

EveryRunFailedAndWasFixed ==
    /\ Len(agent.fixes) = Len(agent.runs)
    /\ \A i \in 1..Len(agent.runs) :
           FailedRun(agent.runs[i]) /\ agent.fixes[i] = "applied"

AttemptsBounded ==
    /\ Len(agent.runs) <= agent.max_fix_attempts
    /\ \A i \in 1..(Len(agent.runs) - 1) :
           FailedRun(agent.runs[i]) /\ agent.fixes[i] = "applied"
    /\ (AgentReturned /\ agent.returned.success) =>
           /\ agent.runs # <<>>
           /\ agent.runs[Len(agent.runs)] = "exit 0"
    /\ (AgentReturned /\ Len(agent.runs) = agent.max_fix_attempts
          /\ EveryRunFailedAndWasFixed) =>
           agent.returned =
               [success |-> FALSE,
                stderr |-> MaxAttemptsMessage(agent.max_fix_attempts)]

\* C30: run_cmd_with_fixes returns, after at most max_fix_attempts runs of
\* the command; it runs the command again only after a failed run whose
\* fixes were applied, reports success only after a run that exited with 0,
\* and reports that the attempts are exceeded once max_fix_attempts failed
\* runs were each followed by an applied fix.
C30_TerminatesWithinMaxAttempts == []AttemptsBounded /\ <>AgentReturned

\* every allowed attempt failed and was fixed, and the call gave up
C30_Witness ==
    /\ AgentReturned
    /\ agent.max_fix_attempts = MaxFixAttempts
    /\ Len(agent.runs) = MaxFixAttempts
    /\ EveryRunFailedAndWasFixed
    /\ agent.returned.stderr = MaxAttemptsMessage(MaxFixAttempts)

====
